---- MODULE Spec2Model ----
(***************************************************************************)
(* Model of the in-memory HTTP server of node-unittest-utils               *)
(* (src/src/lib/http-server.js, first definition of HttpServer) together   *)
(* with the response object it hands to callers                            *)
(* (src/src/lib/mock-incoming-message.js) and the request facade in front  *)
(* of it (src/src/lib/mock-request.js, src/src/lib/mock-client-request.js),*)
(* and of the mock file system MockFs (src/unnamed/part_006, the second     *)
(* definition of the class).                                               *)
(*                                                                         *)
(* Strings are sequences of one-character strings, so that substr,         *)
(* lastIndexOf and startsWith are computed as the code computes them.      *)
(* Every URL is on the one host "http://h"; a URL is written as the part   *)
(* after the host (path, then an optional "?query").  Buffers are          *)
(* sequences of byte values.  An optional value is a sequence of length    *)
(* at most one: <<>> is null/undefined, <<v>> is the value v.              *)
(***************************************************************************)
EXTENDS Integers, Sequences, FiniteSets, TLC

VARIABLES
  urlData,          \* HttpServer.urlData: ordered map key -> entry
  registeredUrls,   \* HttpServer.registeredUrls: ordered (method, key) -> callback
  requestCallback,  \* HttpServer.requestCallback: the global callback
  requestedUrls,    \* HttpServer.requestedUrls: (method, url) -> options list
  chunkData,        \* HttpServer.chunkData: ordered map url -> assembly state
  queue,            \* process.nextTick queue: scheduled getResponse calls and
                    \* the deferred end of request()
  nreq,             \* number of client requests submitted so far
  log,              \* what became of each client request, in completion order
  clients,          \* the MockClientRequest objects made by request()
  fs,               \* the MockFs object: its documents and open descriptors
  fsLog,            \* what became of the MockFs calls: every callback-form call,
                    \* or the synchronous call the test looks at
  streams,          \* the full paths of the files that the write streams made
                    \* by createWriteStream and not yet finished write to
  setupComplete     \* MockAemServer.setupComplete: first-time setup was begun

vars == <<urlData, registeredUrls, requestCallback, requestedUrls, chunkData,
          queue, nreq, log, clients, fs, fsLog, streams, setupComplete>>

\* the variables of the file system
fsVars == <<fs, fsLog, streams>>

\* the variables of the HTTP server and its clients, but for the queue
httpVars == <<urlData, registeredUrls, requestCallback, requestedUrls, chunkData,
              nreq, log, clients, setupComplete>>

-----------------------------------------------------------------------------
(* Generic helpers for optionals, strings and ordered maps (JS objects).     *)

Null == <<>>

Some(v) == <<v>>

IsSome(o) == Len(o) > 0

Val(o) == o[1]

\* String.prototype.lastIndexOf(c): 1-based position of the last c, 0 if none
LastIndexOf(s, c) ==
  LET hits == {i \in 1..Len(s) : s[i] = c}
  IN IF hits = {} THEN 0 ELSE CHOOSE i \in hits : \A j \in hits : j <= i

\* String.prototype.indexOf(c): 1-based position of the first c, 0 if none
IndexOf(s, c) ==
  LET hits == {i \in 1..Len(s) : s[i] = c}
  IN IF hits = {} THEN 0 ELSE CHOOSE i \in hits : \A j \in hits : i <= j

\* String.prototype.startsWith
StartsWith(s, p) == Len(p) <= Len(s) /\ SubSeq(s, 1, Len(p)) = p

\* s.substr(n) with n counted from 0
SubstrFrom(s, n) == SubSeq(s, n + 1, Len(s))

\* Object.keys(m) of an ordered map, in insertion order
MapKeys(m) == [i \in 1..Len(m) |-> m[i].key]

MapHas(m, k) == \E i \in 1..Len(m) : m[i].key = k

MapGet(m, k) == m[CHOOSE i \in 1..Len(m) : m[i].key = k].val

\* m[k] = v: an existing key keeps its place, a new key goes last
MapSet(m, k, v) ==
  IF MapHas(m, k)
  THEN [i \in 1..Len(m) |-> IF m[i].key = k THEN [key |-> k, val |-> v] ELSE m[i]]
  ELSE Append(m, [key |-> k, val |-> v])

\* delete m[k]
MapDel(m, k) == SelectSeq(m, LAMBDA e : e.key # k)

-----------------------------------------------------------------------------
(* Text and bytes.                                                           *)

\* Buffer.from(string): the UTF-8 bytes of one character
Utf8Char(c) ==
  CASE c = "x" -> <<120>>
    [] c = "y" -> <<121>>
    [] c = "e_acute" -> <<195, 169>>
    [] c = "nul" -> <<0>>
    [] OTHER -> <<239, 191, 189>>

RECURSIVE BufferFrom(_)
\* Buffer.from(string): the UTF-8 encoding of a string
BufferFrom(s) == IF s = <<>> THEN <<>> ELSE Utf8Char(Head(s)) \o BufferFrom(Tail(s))

RECURSIVE BufferToString(_)
\* buffer.toString(): UTF-8 decoding; a byte that starts no character of the
\* alphabet decodes to the replacement character
BufferToString(b) ==
  IF b = <<>> THEN <<>>
  ELSE IF b[1] = 120 THEN <<"x">> \o BufferToString(Tail(b))
  ELSE IF b[1] = 121 THEN <<"y">> \o BufferToString(Tail(b))
  ELSE IF b[1] = 0 THEN <<"nul">> \o BufferToString(Tail(b))
  ELSE IF Len(b) >= 2 /\ b[1] = 195 /\ b[2] = 169
       THEN <<"e_acute">> \o BufferToString(SubSeq(b, 3, Len(b)))
  ELSE IF Len(b) >= 3 /\ b[1] = 239 /\ b[2] = 191 /\ b[3] = 189
       THEN <<"replacement">> \o BufferToString(SubSeq(b, 4, Len(b)))
  ELSE <<"replacement">> \o BufferToString(Tail(b))

-----------------------------------------------------------------------------
(* URLs.  URL.parse of the legacy url module, restricted to what the server  *)
(* reads from it: the pathname.                                              *)

\* URL.parse(u).pathname of an absolute URL "http://h" \o u: the part before
\* the query, "/" when that part is empty
Pathname(u) ==
  LET q == IndexOf(u, "?")
      p == IF q = 0 THEN u ELSE SubSeq(u, 1, q - 1)
  IN IF p = <<>> THEN <<"/">> ELSE p

\* URL.parse(d).pathname of a destination header value d = [host, rest]:
\* host is "" for a path-only value.  Null when there is no pathname.
DestPathname(d) ==
  LET q == IndexOf(d.rest, "?")
      p == IF q = 0 THEN d.rest ELSE SubSeq(d.rest, 1, q - 1)
  IN IF p # <<>> THEN Some(p)
     ELSE IF d.host # "" THEN Some(<<"/">>)
     ELSE Null

\* _getUrlDataKey: protocol//host/pathname; the protocol and host are the
\* same for every URL of the model and are left implicit
UrlDataKey(url) == Pathname(url)

\* mime.getType(url): by the extension after the last "." of the last segment
MimeGetType(url) ==
  LET p == Pathname(url)
      dot == LastIndexOf(p, ".")
      ext == IF dot = 0 \/ dot < LastIndexOf(p, "/") THEN <<>> ELSE SubstrFrom(p, dot)
  IN CASE ext = <<"j">> -> "image/jpeg"
       [] ext = <<"t">> -> "text/plain"
       [] OTHER -> "null"

-----------------------------------------------------------------------------
(* Response options, headers and store entries.                              *)

NoHeaders == [ContentType |-> "", ContentLength |-> -1, custom |-> ""]

\* a response-options object {statusCode, headers}; statusCode 0 is "not set"
Options(statusCode, headers) ==
  [t |-> "opts", statusCode |-> statusCode, headers |-> headers, bytes |-> <<>>]

\* the empty object {}
EmptyOptions == Options(0, NoHeaders)

\* a Buffer stored where a response-options object is expected
BufferAsOptions(b) ==
  [t |-> "buf", statusCode |-> 0, headers |-> NoHeaders, bytes |-> b]

\* body arguments: a string, a Buffer, or a falsy value (undefined, false, '')
StrBody(s) == [t |-> "str", v |-> s]

BufBody(b) == [t |-> "buf", v |-> b]

NoBody == [t |-> "none", v |-> <<>>]

-----------------------------------------------------------------------------
(* The Resource Store: HttpServer.setUrlData .. HttpServer.moveUrl.          *)

\* HttpServer.urlExists
UrlExists(ud, url) == MapHas(ud, UrlDataKey(url))

\* HttpServer.getUrlResponseOptions (only called on existing URLs)
GetUrlResponseOptions(ud, url) == MapGet(ud, UrlDataKey(url)).responseOptions

\* HttpServer.getUrlResponseBody (only called on existing URLs)
GetUrlResponseBody(ud, url) == MapGet(ud, UrlDataKey(url)).responseBody

\* a setUrlData that keeps Buffers only and stores nothing for a string
NormalizeBodyBuffersOnly(body) == IF body.t = "buf" THEN body.v ELSE <<>>

\* the Buffer that setUrlData stores for a body argument
NormalizeBody(body) ==
  IF body.t = "buf" THEN body.v
  ELSE IF body.t = "str" /\ body.v # <<>> THEN BufferFrom(body.v)
  ELSE <<>>

\* HttpServer.setUrlData: requestOptions is accepted and not stored
SetUrlData(ud, url, requestOptions, responseOptions, responseBody) ==
  MapSet(ud, UrlDataKey(url),
         [responseOptions |-> responseOptions,
          responseBody |-> NormalizeBody(responseBody)])

\* HttpServer.deleteUrlData
DeleteUrlData(ud, url) == MapDel(ud, UrlDataKey(url))

\* moveUrl's _isChildUrl
IsChildUrl(parent, child) == StartsWith(child, parent \o <<"/">>)

\* moveUrl's _getNewUrl
GetNewUrl(oldParent, newParent, child) == newParent \o SubstrFrom(child, Len(oldParent))

\* HttpServer.registerUrl
RegisterUrl(reg, method, url, callback) == MapSet(reg, <<method, UrlDataKey(url)>>, callback)

\* HttpServer.isUrlRegistered
IsUrlRegistered(reg, method, url) == MapHas(reg, <<method, UrlDataKey(url)>>)

\* HttpServer.unregisterUrl
UnregisterUrl(reg, method, url) == MapDel(reg, <<method, UrlDataKey(url)>>)

RECURSIVE MoveChildData(_, _, _, _)
\* moveUrl, the forEach over Object.keys(this.urlData): the child is stored
\* with setUrlData(newUrl, options, body), so its options land in the
\* requestOptions parameter, its body in responseOptions, and responseBody
\* takes its default ''
MoveChildData(ud, keys, sourceUrl, targetUrl) ==
  IF keys = <<>> THEN ud
  ELSE LET url == Head(keys)
           moved ==
             IF IsChildUrl(sourceUrl, url)
             THEN DeleteUrlData(
                    SetUrlData(ud, GetNewUrl(sourceUrl, targetUrl, url),
                               GetUrlResponseOptions(ud, url),
                               BufferAsOptions(GetUrlResponseBody(ud, url)),
                               NoBody),
                    url)
             ELSE ud
       IN MoveChildData(moved, Tail(keys), sourceUrl, targetUrl)

RECURSIVE MoveChildCallbacks(_, _, _, _)
\* moveUrl, the forEach over the registered (method, url) pairs
MoveChildCallbacks(reg, keys, sourceUrl, targetUrl) ==
  IF keys = <<>> THEN reg
  ELSE LET method == Head(keys)[1]
           url == Head(keys)[2]
           moved ==
             IF IsChildUrl(sourceUrl, url)
             THEN UnregisterUrl(
                    RegisterUrl(reg, method, GetNewUrl(sourceUrl, targetUrl, url),
                                MapGet(reg, <<method, url>>)),
                    method, url)
             ELSE reg
       IN MoveChildCallbacks(moved, Tail(keys), sourceUrl, targetUrl)

\* HttpServer.moveUrl: the new urlData and registeredUrls
MoveUrl(ud, reg, sourceUrl, targetUrl) ==
  IF UrlExists(ud, sourceUrl)
  THEN LET set == SetUrlData(ud, targetUrl, EmptyOptions,
                             GetUrlResponseOptions(ud, sourceUrl),
                             BufBody(GetUrlResponseBody(ud, sourceUrl)))
           del == DeleteUrlData(set, sourceUrl)
       IN [urlData |-> MoveChildData(del, MapKeys(del), sourceUrl, targetUrl),
           registeredUrls |-> MoveChildCallbacks(reg, MapKeys(reg), sourceUrl, targetUrl)]
  ELSE [urlData |-> ud, registeredUrls |-> reg]

-----------------------------------------------------------------------------
(* Responses: MockIncomingMessage and _createResponse.                       *)

\* response bodies: null, a Buffer of content, the Buffer of one of the
\* server's fixed messages, or the string a callback passed
NullBody == [t |-> "null", bytes |-> <<>>, msg |-> ""]

Buf(b) == [t |-> "buf", bytes |-> b, msg |-> ""]

Msg(m) == [t |-> "msg", bytes |-> <<>>, msg |-> m]

Str(m) == [t |-> "str", bytes |-> <<>>, msg |-> m]

\* new MockIncomingMessage({statusCode=501, headers={}}, body=null)
MockIncomingMessage(options, body) ==
  [statusCode |-> IF options.statusCode = 0 THEN 501 ELSE options.statusCode,
   headers |-> options.headers,
   body |-> body]

\* _createResponse(statusCode, headers, body, fallbackBody): body is the
\* optional Buffer the global callback supplied
CreateResponse(statusCode, headers, body, fallbackBody) ==
  MockIncomingMessage(Options(statusCode, headers),
                      IF IsSome(body) THEN Buf(Val(body)) ELSE fallbackBody)

\* MockIncomingMessage.getBodyAsString: the decoded content, the text of a
\* message or string (as one token), '' for null
GetBodyAsString(res) ==
  CASE res.body.t = "buf" -> BufferToString(res.body.bytes)
    [] res.body.t \in {"msg", "str"} -> <<res.body.msg>>
    [] OTHER -> <<>>

-----------------------------------------------------------------------------
(* Request options and the callbacks a test can install.                     *)

\* the options of a request; method "" is "not given"
RequestOptions(url, method, dest, range, form, ignoreCount) ==
  [url |-> url, method |-> method, dest |-> dest, range |-> range, form |-> form,
   ignoreCount |-> ignoreCount]

\* the options _urlExists submits: {url, ignoreCount: true}
ExistsOptions(url) == RequestOptions(url, "", Null, Null, Null, TRUE)

\* URLs the installed callbacks single out
HookUrl == <<"/", "a">>

RewriteFrom == <<"/", "r">>

RewriteTo == <<"/", "a">>

\* what a global callback passes to its completion function:
\* (err, requestOptions, responseOptions, responseBody)
HookResult(err, requestOptions, responseOptions, responseBody) ==
  [err |-> err, requestOptions |-> requestOptions,
   responseOptions |-> responseOptions, responseBody |-> responseBody]

\* the global callbacks of the model:
\*   "default"  the constructor's (options, callback) => {callback()}
\*   "error"    callback('we got issues')
\*   "respond"  answers HookUrl itself and passes every other URL on
\*   "rewrite"  passes on new options with the URL RewriteFrom replaced
\*   "body"     supplies a response body only
RequestCallback(kind, options) ==
  CASE kind = "error" -> HookResult(TRUE, Null, Null, Null)
    [] kind = "respond" /\ options.url = HookUrl ->
         HookResult(FALSE, Some(options), Some(Options(200, NoHeaders)), Some(<<"x">>))
    [] kind = "rewrite" /\ options.url = RewriteFrom ->
         HookResult(FALSE, Some([options EXCEPT !.url = RewriteTo]), Null, Null)
    [] kind = "body" -> HookResult(FALSE, Null, Null, Some(<<"y">>))
    [] OTHER -> HookResult(FALSE, Null, Null, Null)

\* the per-URL callbacks of the model, (err, responseOptions, responseBody):
\*   "respond"  callback(null, {statusCode: 200}, 'y')
\*   "error"    callback('there was an error')
UrlCallback(kind, options) ==
  IF kind = "error"
  THEN [err |-> TRUE, res |-> MockIncomingMessage(EmptyOptions, NullBody)]
  ELSE [err |-> FALSE, res |-> MockIncomingMessage(Options(200, NoHeaders), Str("y"))]

-----------------------------------------------------------------------------
(* Outcomes of one synchronous run of server code.  kind is                  *)
(*   "respond"     callback(null, res)                                       *)
(*   "error"       callback(err)                                             *)
(*   "exists"      _urlExists(url, ..) was called: a GET is scheduled and    *)
(*                 frame says where the handler resumes                      *)
(*   "nocallback"  the handler returned without calling back                 *)
(*   "throw"       the handler threw inside its tick                         *)

NoFrame == [stage |-> "client", options |-> ExistsOptions(<<>>), responseBody |-> Null,
            requestBody |-> <<>>, url |-> <<>>, destUrl |-> <<>>]

Frame(stage, options, responseBody, requestBody, url, destUrl) ==
  [stage |-> stage, options |-> options, responseBody |-> responseBody,
   requestBody |-> requestBody, url |-> url, destUrl |-> destUrl]

NoResponse == MockIncomingMessage(EmptyOptions, NullBody)

Respond(res, ud, reg, cd) ==
  [kind |-> "respond", res |-> res, frame |-> NoFrame,
   urlData |-> ud, registeredUrls |-> reg, chunkData |-> cd]

Fail(kind, ud, reg, cd) ==
  [kind |-> kind, res |-> NoResponse, frame |-> NoFrame,
   urlData |-> ud, registeredUrls |-> reg, chunkData |-> cd]

CheckExists(frame, ud, reg, cd) ==
  [kind |-> "exists", res |-> NoResponse, frame |-> frame,
   urlData |-> ud, registeredUrls |-> reg, chunkData |-> cd]

-----------------------------------------------------------------------------
(* The range header.  A header value is a sequence of tokens: "bytes=" (or   *)
(* another unit), decimal digits and "-".                                    *)

Digits == {"0", "1", "2", "3", "4", "5", "6", "7", "8", "9"}

DigitValue(d) ==
  CASE d = "0" -> 0 [] d = "1" -> 1 [] d = "2" -> 2 [] d = "3" -> 3 [] d = "4" -> 4
    [] d = "5" -> 5 [] d = "6" -> 6 [] d = "7" -> 7 [] d = "8" -> 8 [] d = "9" -> 9

RECURSIVE ParseInt(_)
\* parseInt(s, 10) of a non-empty digit string
ParseInt(s) ==
  IF Len(s) = 1 THEN DigitValue(s[1])
  ELSE 10 * ParseInt(SubSeq(s, 1, Len(s) - 1)) + DigitValue(s[Len(s)])

IsDigits(s) == Len(s) > 0 /\ \A i \in 1..Len(s) : s[i] \in Digits

\* new RegExp('^bytes=([0-9]+)-([0-9]+)$').exec(range): Null when there is no
\* match, else the two parsed numbers
RangeMatch(range) ==
  LET dash == IndexOf(range, "-")
      first == SubSeq(range, 2, dash - 1)
      second == SubSeq(range, dash + 1, Len(range))
  IN IF Len(range) >= 1 /\ range[1] = "bytes=" /\ dash > 0
        /\ IsDigits(first) /\ IsDigits(second)
     THEN Some([startByte |-> ParseInt(first), endByte |-> ParseInt(second)])
     ELSE Null

-----------------------------------------------------------------------------
(* The built-in verb handlers.  ud, reg, cd are urlData, registeredUrls and  *)
(* chunkData at the time the code runs.                                      *)

\* _getGetResponse, the final callback: the (possibly sliced) content with its
\* Content-Type and Content-Length
GetContentResponse(ud, reg, cd, url, statusCode, content) ==
  Respond(CreateResponse(statusCode,
                         [ContentType |-> MimeGetType(url),
                          ContentLength |-> Len(content),
                          custom |-> ""],
                         Some(content), NullBody),
          ud, reg, cd)

\* _getGetResponse from "if (endByte)" on; endByte 0 stands for the initial
\* null as well
GetRangeResponse(ud, reg, cd, url, urlContent, startByte, endByte) ==
  IF endByte # 0
  THEN IF startByte >= endByte \/ startByte < 0 \/ endByte < 0
          \/ (endByte + 1) >= Len(urlContent)
       THEN Fail("nocallback", ud, reg, cd)
       ELSE GetContentResponse(ud, reg, cd, url, 206,
                               SubSeq(urlContent, startByte + 1, endByte + 1))
  ELSE GetContentResponse(ud, reg, cd, url, 200, urlContent)

\* _getGetResponse of an existing URL, once the range header is matched
GetExistingResponse(ud, reg, cd, options, responseBody, hasRange, match) ==
  IF hasRange /\ ~IsSome(match)
  THEN Respond(CreateResponse(400, NoHeaders, responseBody,
                              Msg("unsupported range header")), ud, reg, cd)
  ELSE GetRangeResponse(ud, reg, cd, options.url,
                        IF IsSome(responseBody) THEN Val(responseBody)
                        ELSE GetUrlResponseBody(ud, options.url),
                        IF IsSome(match) THEN Val(match).startByte ELSE 0,
                        IF IsSome(match) THEN Val(match).endByte ELSE 0)

\* _getGetResponse; includeBody is accepted and never read
GetGetResponse(ud, reg, cd, options, responseBody, includeBody) ==
  IF UrlExists(ud, options.url)
  THEN GetExistingResponse(ud, reg, cd, options, responseBody,
                           IsSome(options.range) /\ Val(options.range) # <<>>,
                           IF IsSome(options.range) /\ Val(options.range) # <<>>
                           THEN RangeMatch(Val(options.range)) ELSE Null)
  ELSE Respond(CreateResponse(404, NoHeaders, Null, NullBody), ud, reg, cd)

\* _getDeleteResponse up to its _urlExists call
GetDeleteResponse(ud, reg, cd, options, responseBody) ==
  CheckExists(Frame("delete", options, responseBody, Null, options.url, <<>>), ud, reg, cd)

\* a DELETE that answers like the code and removes nothing
DeleteResumeKeeping(ud, reg, cd, f, exists) ==
  IF exists
  THEN Respond(CreateResponse(200, NoHeaders, f.responseBody, Msg("path deleted")),
               ud, reg, cd)
  ELSE Respond(CreateResponse(404, NoHeaders, f.responseBody,
                              Msg("path to delete not found")), ud, reg, cd)

\* _getDeleteResponse, the callback of _urlExists
DeleteResume(ud, reg, cd, f, exists) ==
  IF exists
  THEN Respond(CreateResponse(200, NoHeaders, f.responseBody, Msg("path deleted")),
               DeleteUrlData(ud, f.url), reg, cd)
  ELSE Respond(CreateResponse(404, NoHeaders, f.responseBody,
                              Msg("path to delete not found")), ud, reg, cd)

\* _getPostResponse: url.substr(0, url.lastIndexOf('/')).  In a URL without a
\* path the last "/" is inside "http://", which leaves no pathname either.
PostParent(url) ==
  IF LastIndexOf(url, "/") = 0 THEN <<>> ELSE SubSeq(url, 1, LastIndexOf(url, "/") - 1)

\* _getPostResponse, the test of _getUrlExists: posting to the root is always
\* possible
ParentIsRoot(parent) == Pathname(parent) = <<"/">>

\* Buffer.alloc(n)
BufferAlloc(n) == [i \in 1..n |-> 0]

\* source.copy(target, targetStart): the target after the copy
BufferCopy(source, target, targetStart) ==
  [i \in 1..Len(target) |->
     IF i > targetStart /\ i - targetStart <= Len(source)
     THEN source[i - targetStart] ELSE target[i]]

\* the body argument of setUrlData(url, options, {}, requestBody)
RequestBodyArg(requestBody) ==
  IF IsSome(requestBody) THEN StrBody(Val(requestBody)) ELSE NoBody

\* _getPostResponse, chunk branch after the validity test: copy the chunk at
\* currOffset, advance, and finish the upload when the offset reaches fileLength
PostChunkWrite(ud, reg, cd, f, url, written, newOffset, fileLength) ==
  IF newOffset >= fileLength
  THEN Respond(CreateResponse(200, NoHeaders, f.responseBody, Msg("chunk uploaded")),
               SetUrlData(ud, url, f.options, EmptyOptions,
                          StrBody(BufferToString(written))),
               reg, MapDel(cd, url))
  ELSE Respond(CreateResponse(200, NoHeaders, f.responseBody, Msg("chunk uploaded")),
               ud, reg,
               MapSet(cd, url, [content |-> written, currOffset |-> newOffset]))

\* _getPostResponse, chunk branch once chunkData[url] exists: Buffer.from of
\* an empty request body (false) throws
PostChunk(ud, reg, cd, f, url, content, currOffset, formOffset, chunkLength, fileLength) ==
  IF ~IsSome(f.requestBody)
  THEN Fail("throw", ud, reg, cd)
  ELSE IF (IF formOffset = 0 THEN currOffset ELSE formOffset) < 0
          \/ (IF formOffset = 0 THEN currOffset ELSE formOffset) >= Len(content)
          \/ chunkLength # Len(Val(f.requestBody))
  THEN Respond(CreateResponse(400, NoHeaders, f.responseBody,
                              Msg("chunk information is not valid")), ud, reg, cd)
  ELSE PostChunkWrite(ud, reg, cd, f, url,
                      BufferCopy(BufferFrom(Val(f.requestBody)), content, currOffset),
                      currOffset + chunkLength, fileLength)

\* _getPostResponse, chunk branch: chunkData[url] is created on first use
PostChunkStart(ud, reg, cd, f, url, formOffset, chunkLength, fileLength) ==
  PostChunk(ud, reg, cd, f, url,
            MapGet(cd, url).content, MapGet(cd, url).currOffset,
            formOffset, chunkLength, fileLength)

\* a POST that overwrites an existing resource instead of refusing
PostCreateOverwriting(ud, reg, cd, f, exists) ==
  Respond(CreateResponse(201, NoHeaders, f.responseBody, Msg("path created")),
          SetUrlData(ud, f.options.url, f.options, EmptyOptions,
                     RequestBodyArg(f.requestBody)),
          reg, cd)

\* _getPostResponse, the callback of the second _urlExists: conflict, chunk
\* assembly, or creation
PostCreate(ud, reg, cd, f, exists) ==
  IF exists
  THEN Respond(CreateResponse(409, NoHeaders, f.responseBody,
                              Msg("conflict: already exists")), ud, reg, cd)
  ELSE IF IsSome(f.options.form) /\ Val(f.options.form).chunkLength # 0
  THEN PostChunkStart(ud, reg,
                      IF MapHas(cd, f.options.url) THEN cd
                      ELSE MapSet(cd, f.options.url,
                                  [content |-> BufferAlloc(Val(f.options.form).fileLength),
                                   currOffset |-> 0]),
                      f, f.options.url, Val(f.options.form).fileOffset,
                      Val(f.options.form).chunkLength, Val(f.options.form).fileLength)
  ELSE Respond(CreateResponse(201, NoHeaders, f.responseBody, Msg("path created")),
               SetUrlData(ud, f.options.url, f.options, EmptyOptions,
                          RequestBodyArg(f.requestBody)),
               reg, cd)

\* a POST that goes on whether or not the parent exists
PostParentUnchecked(ud, reg, cd, f, exists) ==
  CheckExists([f EXCEPT !.stage = "postUrl", !.url = f.options.url], ud, reg, cd)

\* _getPostResponse, the callback of _getUrlExists: the parent must exist
PostParentChecked(ud, reg, cd, f, exists) ==
  IF ~exists
  THEN Respond(CreateResponse(404, NoHeaders, f.responseBody, Msg("parent not found")),
               ud, reg, cd)
  ELSE CheckExists([f EXCEPT !.stage = "postUrl", !.url = f.options.url], ud, reg, cd)

\* _getPostResponse up to the first asynchronous step
GetPostResponse(ud, reg, cd, options, responseBody, requestBody) ==
  IF ParentIsRoot(PostParent(options.url))
  THEN PostParentChecked(ud, reg, cd,
                         Frame("postParent", options, responseBody, requestBody,
                               PostParent(options.url), <<>>),
                         TRUE)
  ELSE CheckExists(Frame("postParent", options, responseBody, requestBody,
                         PostParent(options.url), <<>>), ud, reg, cd)

\* _getPutResponse up to its _urlExists call
GetPutResponse(ud, reg, cd, options, responseBody, requestBody) ==
  CheckExists(Frame("put", options, responseBody, requestBody, options.url, <<>>),
              ud, reg, cd)

\* a PUT that creates the resource when it is absent
PutResumeCreating(ud, reg, cd, f, exists) ==
  Respond(CreateResponse(200, NoHeaders, f.responseBody, Msg("path updated")),
          SetUrlData(ud, f.url, f.options, EmptyOptions, RequestBodyArg(f.requestBody)),
          reg, cd)

\* _getPutResponse, the callback of _urlExists
PutResume(ud, reg, cd, f, exists) ==
  IF ~exists
  THEN Respond(CreateResponse(404, NoHeaders, f.responseBody,
                              Msg("path to update not found")), ud, reg, cd)
  ELSE Respond(CreateResponse(200, NoHeaders, f.responseBody, Msg("path updated")),
               SetUrlData(ud, f.url, f.options, EmptyOptions,
                          RequestBodyArg(f.requestBody)),
               reg, cd)

\* HttpServer.getDestinationUrl: Null when it throws (no headers, no
\* destination header, or a destination without a pathname)
GetDestinationUrl(options) ==
  IF ~IsSome(options.dest) THEN Null ELSE DestPathname(Val(options.dest))

\* _getMoveResponse up to its first _urlExists call
GetMoveResponse(ud, reg, cd, options, responseBody) ==
  IF ~IsSome(GetDestinationUrl(options))
  THEN Respond(CreateResponse(400, NoHeaders, responseBody,
                              Msg("destination path must be specified")), ud, reg, cd)
  ELSE CheckExists(Frame("moveSource", options, responseBody, Null, options.url,
                         Val(GetDestinationUrl(options))), ud, reg, cd)

\* _getMoveResponse, the callback of _urlExists(url)
MoveSourceChecked(ud, reg, cd, f, exists) ==
  IF ~exists
  THEN Respond(CreateResponse(404, NoHeaders, f.responseBody,
                              Msg("source path not found")), ud, reg, cd)
  ELSE CheckExists([f EXCEPT !.stage = "moveDest", !.url = f.destUrl], ud, reg, cd)

\* a MOVE that does not look whether the destination exists
MoveDestUnchecked(ud, reg, cd, f, exists) ==
  Respond(CreateResponse(201, NoHeaders, f.responseBody, Msg("move completed")),
          MoveUrl(ud, reg, f.options.url, f.destUrl).urlData,
          MoveUrl(ud, reg, f.options.url, f.destUrl).registeredUrls, cd)

\* _getMoveResponse, the callback of _urlExists(destUrl)
MoveDestChecked(ud, reg, cd, f, exists) ==
  IF exists
  THEN Respond(CreateResponse(409, NoHeaders, f.responseBody,
                              Msg("destination path already exists")), ud, reg, cd)
  ELSE Respond(CreateResponse(201, NoHeaders, f.responseBody, Msg("move completed")),
               MoveUrl(ud, reg, f.options.url, f.destUrl).urlData,
               MoveUrl(ud, reg, f.options.url, f.destUrl).registeredUrls, cd)

-----------------------------------------------------------------------------
(* HttpServer.getResponse and _urlExists.                                    *)

\* a counting that records the options the global callback passed on
CountRequestEffective(ru, options, requestOptions) ==
  LET k == <<requestOptions.method, requestOptions.url>>
  IN IF options.ignoreCount THEN ru
     ELSE MapSet(ru, k, Append(IF MapHas(ru, k) THEN MapGet(ru, k) ELSE <<>>,
                               requestOptions))

\* getResponse, the counting of a request: the options object the caller
\* passed is pushed under the effective method and URL
CountRequest(ru, options, requestOptions) ==
  LET k == <<requestOptions.method, requestOptions.url>>
  IN IF options.ignoreCount THEN ru
     ELSE MapSet(ru, k, Append(IF MapHas(ru, k) THEN MapGet(ru, k) ELSE <<>>, options))

\* HttpServer.getRequestedUrlCount(method, url)
GetRequestedUrlCount(ru, method, url) ==
  IF MapHas(ru, <<method, url>>) THEN Len(MapGet(ru, <<method, url>>)) ELSE 0

\* HttpServer.getRequestedUrlOptions(method, url, index); the index defaults
\* to -1 and Null is the null the code returns
GetRequestedUrlOptions(ru, method, url, index) ==
  IF ~MapHas(ru, <<method, url>>) THEN Null
  ELSE IF index < 0 /\ Len(MapGet(ru, <<method, url>>)) > 0
  THEN Some(MapGet(ru, <<method, url>>)[Len(MapGet(ru, <<method, url>>))])
  ELSE IF index >= 0 /\ index < Len(MapGet(ru, <<method, url>>))
  THEN Some(MapGet(ru, <<method, url>>)[index + 1])
  ELSE Null

\* what one getResponse call came to: the outcome, the handlers consulted,
\* the effective request options and what the global callback passed on
Result(out, ran, requestOptions, hook) ==
  [out |-> out, ran |-> ran, requestOptions |-> requestOptions, hook |-> hook]

\* getResponse, the dispatch on the method when no callback answers
Builtin(ud, reg, cd, requestOptions, responseBody, requestBody) ==
  CASE requestOptions.method \in {"GET", "HEAD"} ->
         GetGetResponse(ud, reg, cd, requestOptions, responseBody,
                        requestOptions.method = "GET")
    [] requestOptions.method = "DELETE" ->
         GetDeleteResponse(ud, reg, cd, requestOptions, responseBody)
    [] requestOptions.method = "POST" ->
         GetPostResponse(ud, reg, cd, requestOptions, responseBody, requestBody)
    [] requestOptions.method = "PUT" ->
         GetPutResponse(ud, reg, cd, requestOptions, responseBody, requestBody)
    [] requestOptions.method = "MOVE" ->
         GetMoveResponse(ud, reg, cd, requestOptions, responseBody)
    [] OTHER -> Respond(NoResponse, ud, reg, cd)

\* getResponse, a registered per-URL callback is invoked and its answer is final
Registered(ud, reg, cd, called) ==
  IF called.err THEN Fail("error", ud, reg, cd) ELSE Respond(called.res, ud, reg, cd)

\* a dispatch that asks the per-URL callback before it looks at what the
\* global callback answered
DispatchUrlFirst(ud, reg, cd, requestOptions, responseBody, requestBody, hook) ==
  IF hook.err
  THEN Result(Fail("error", ud, reg, cd), <<"global">>, requestOptions, hook)
  ELSE IF MapHas(reg, <<requestOptions.method, UrlDataKey(requestOptions.url)>>)
  THEN Result(Registered(ud, reg, cd,
                         UrlCallback(MapGet(reg, <<requestOptions.method,
                                                   UrlDataKey(requestOptions.url)>>),
                                     requestOptions)),
              <<"global", "url">>, requestOptions, hook)
  ELSE IF IsSome(hook.responseOptions)
  THEN Result(Respond(MockIncomingMessage(Val(hook.responseOptions),
                                          IF IsSome(responseBody)
                                          THEN Buf(Val(responseBody)) ELSE NullBody),
                      ud, reg, cd),
              <<"global">>, requestOptions, hook)
  ELSE Result(Builtin(ud, reg, cd, requestOptions, responseBody, requestBody),
              <<"global", "builtin">>, requestOptions, hook)

\* getResponse, the if/else chain after the counting: error, response of the
\* global callback, per-URL callback, built-in handler
Dispatch(ud, reg, cd, requestOptions, responseBody, requestBody, hook) ==
  IF hook.err
  THEN Result(Fail("error", ud, reg, cd), <<"global">>, requestOptions, hook)
  ELSE IF IsSome(hook.responseOptions)
  THEN Result(Respond(MockIncomingMessage(Val(hook.responseOptions),
                                          IF IsSome(responseBody)
                                          THEN Buf(Val(responseBody)) ELSE NullBody),
                      ud, reg, cd),
              <<"global">>, requestOptions, hook)
  ELSE IF MapHas(reg, <<requestOptions.method, UrlDataKey(requestOptions.url)>>)
  THEN Result(Registered(ud, reg, cd,
                         UrlCallback(MapGet(reg, <<requestOptions.method,
                                                   UrlDataKey(requestOptions.url)>>),
                                     requestOptions)),
              <<"global", "url">>, requestOptions, hook)
  ELSE Result(Builtin(ud, reg, cd, requestOptions, responseBody, requestBody),
              IF requestOptions.method \in {"GET", "HEAD", "DELETE", "POST", "PUT", "MOVE"}
              THEN <<"global", "builtin">> ELSE <<"global">>,
              requestOptions, hook)

\* getResponse, the completion function handed to the global callback: the
\* request options default to the submitted ones and a response body
\* becomes a Buffer
Hooked(ud, reg, cd, options, requestBody, hook) ==
  Dispatch(ud, reg, cd,
           IF IsSome(hook.requestOptions) THEN Val(hook.requestOptions) ELSE options,
           IF IsSome(hook.responseBody) /\ Val(hook.responseBody) # <<>>
           THEN Some(BufferFrom(Val(hook.responseBody))) ELSE Null,
           requestBody, hook)

\* getResponse, the body of its process.nextTick callback up to the point
\* where it returns
GetResponse(ud, reg, cd, rc, options, requestBody) ==
  Hooked(ud, reg, cd, options, requestBody, RequestCallback(rc, options))

\* the handler code that runs when _urlExists reports exists for frame f
Resume(ud, reg, cd, f, exists) ==
  CASE f.stage = "delete" -> DeleteResume(ud, reg, cd, f, exists)
    [] f.stage = "postParent" -> PostParentChecked(ud, reg, cd, f, exists)
    [] f.stage = "postUrl" -> PostCreate(ud, reg, cd, f, exists)
    [] f.stage = "put" -> PutResume(ud, reg, cd, f, exists)
    [] f.stage = "moveSource" -> MoveSourceChecked(ud, reg, cd, f, exists)
    [] f.stage = "moveDest" -> MoveDestChecked(ud, reg, cd, f, exists)

\* an existence check that believes every 200
UrlExistsCallbackTrusting(ud, reg, cd, f, got) ==
  CASE got.kind = "error" -> Fail("error", ud, reg, cd)
    [] got.kind = "respond" -> Resume(ud, reg, cd, f, got.res.statusCode = 200)
    [] got.kind \in {"nocallback", "throw"} -> Fail(got.kind, ud, reg, cd)

\* _urlExists, the callback it gives getResponse: got is the outcome of the
\* GET it submitted for f.url
UrlExistsCallback(ud, reg, cd, f, got) ==
  CASE got.kind = "error" -> Fail("error", ud, reg, cd)
    [] got.kind = "respond" ->
         IF got.res.statusCode = 200 /\ ~UrlExists(ud, f.url)
         THEN Fail("error", ud, reg, cd)
         ELSE Resume(ud, reg, cd, f, got.res.statusCode = 200)
    [] got.kind \in {"nocallback", "throw"} -> Fail(got.kind, ud, reg, cd)

-----------------------------------------------------------------------------
(* The request facade: request() of mock-request.js and MockClientRequest.   *)
(* A client is the record                                                    *)
(*   options           the request options                                   *)
(*   responseCallback  a completion callback was given to request()          *)
(*   errorListener     the test attached an 'error' listener                 *)
(*   ended, doEnd      this.ended, and doEnd of request()                    *)
(*   content           what has been written to the request so far           *)
(*   piped, source     the chunks of the stream piped into the request and   *)
(*                     those it has yet to deliver                           *)
(*   ends, trips       the calls of end() and the ids of the getResponse     *)
(*                     calls made                                            *)
(*   calls, events     the invocations of responseCallback and the events    *)
(*                     that left emit(); "uncaught" is the exception an       *)
(*                     EventEmitter throws for an 'error' nobody listens to  *)

\* new MockClientRequest(options, responseCallback, httpServer), in request():
\* with a stream piped into it the 'pipe' listener has cleared doEnd
MockClientRequest(options, responseCallback, errorListener, source) ==
  [options |-> options, responseCallback |-> responseCallback,
   errorListener |-> errorListener, ended |-> FALSE, doEnd |-> ~IsSome(source),
   content |-> <<>>, piped |-> source, source |-> source, ends |-> 0,
   trips |-> <<>>,
   calls |-> <<>>, events |-> <<>>]

\* an emit that lets every 'error' through to the EventEmitter
EmitUnguarded(c, event) ==
  IF event = "error" /\ ~c.errorListener
  THEN [c EXCEPT !.events = Append(@, "uncaught")]
  ELSE [c EXCEPT !.events = Append(@, event)]

\* MockClientRequest.emit: an 'error' without listener is swallowed when a
\* callback was given, 'finish' is never sent
Emit(c, event) ==
  IF event = "error" /\ ~c.errorListener /\ c.responseCallback THEN c
  ELSE IF event = "finish" THEN c
  ELSE IF event = "error" /\ ~c.errorListener
  THEN [c EXCEPT !.events = Append(@, "uncaught")]
  ELSE [c EXCEPT !.events = Append(@, event)]

\* responseCallback(err, response, body), when one was given
Invoke(c, err, res) ==
  IF ~c.responseCallback THEN c
  ELSE [c EXCEPT !.calls =
          Append(@, [err |-> err,
                     res |-> IF err THEN Null ELSE Some(res),
                     body |-> IF err THEN Null ELSE Some(GetBodyAsString(res))])]

\* MockClientRequest.end, the callback it gives getResponse, for the ways a
\* call can come back: callback(err), callback(null, response), or never.
\* The exception of an unheard 'error' leaves the callback before line 52.
OnResponse(c, kind, res) ==
  CASE kind = "error" ->
         IF Emit(c, "error").events # c.events
            /\ Emit(c, "error").events[Len(Emit(c, "error").events)] = "uncaught"
         THEN Emit(c, "error")
         ELSE Invoke(Emit(c, "error"), TRUE, res)
    [] kind = "respond" -> Invoke(Emit(c, "response"), FALSE, res)
    [] OTHER -> c

\* the log entry e is the end of a getResponse call: the client that made
\* the call, if any, runs its callback
ResponseCallbacks(cs, e) ==
  [n \in 1..Len(cs) |->
     IF \E k \in 1..Len(cs[n].trips) : cs[n].trips[k] = e.id
     THEN OnResponse(cs[n], e.kind, e.res) ELSE cs[n]]

\* getContentsAsString() of the request: false (Null) when nothing was written
GetContentsAsString(c) == IF c.content = <<>> THEN Null ELSE Some(c.content)

-----------------------------------------------------------------------------
(* The mock file system.  A MockFs object is the record                      *)
(*   paths    the documents of its 'paths' collection, in insertion order,   *)
(*            each [id, path, name, isDir, size, content] with path the      *)
(*            directory of the entity                                        *)
(*   maxId    the last $loki id the collection gave                          *)
(*   openFds  the ids of the open files                                      *)
(* A path is a sequence of characters, "/" being Path.sep; the paths of the  *)
(* model are absolute.  A synchronous operation comes to the record          *)
(* [fs, err, value]: the file system it leaves, whether it threw, and what   *)
(* it returned.                                                              *)

Gives(f, value) == [fs |-> f, err |-> FALSE, value |-> value]

Throws(f) == [fs |-> f, err |-> TRUE, value |-> Null]

\* _normalizePathSeparators: one trailing separator is dropped
NormalizePathSeparators(path) ==
  IF Len(path) > 1 /\ path[Len(path)] = "/" THEN SubSeq(path, 1, Len(path) - 1)
  ELSE path

\* Path.parse(p), its dir and base, where i is the last separator of p
PathParse(p, i) ==
  [dir |-> IF i = 0 THEN <<>> ELSE IF i = 1 THEN <<"/">> ELSE SubSeq(p, 1, i - 1),
   name |-> SubSeq(p, i + 1, Len(p))]

\* _splitPath
SplitPath(path) ==
  IF NormalizePathSeparators(path) = <<"/">> THEN [dir |-> <<>>, name |-> <<"/">>]
  ELSE PathParse(NormalizePathSeparators(path),
                 LastIndexOf(NormalizePathSeparators(path), "/"))

\* MockEntity.getFullPath: Path.join(path, name)
GetFullPath(doc) ==
  IF doc.path = <<>> THEN doc.name
  ELSE IF doc.path = <<"/">> THEN <<"/">> \o doc.name
  ELSE doc.path \o <<"/">> \o doc.name

\* this.paths.find({path: dir, name}): the matching documents
FindByName(f, dir, name) ==
  SelectSeq(f.paths, LAMBDA doc : doc.path = dir /\ doc.name = name)

\* this.paths.find({$loki: id})
FindById(f, id) == SelectSeq(f.paths, LAMBDA doc : doc.id = id)

\* _getEntity of a path: the documents _findEntity gets to see
GetEntity(f, path) == FindByName(f, SplitPath(path).dir, SplitPath(path).name)

\* MockFs.existsSync; _findEntity throws when it finds more than one
ExistsFound(f, found) ==
  IF Len(found) > 1 THEN Throws(f) ELSE Gives(f, Len(found) = 1)

ExistsSync(f, path) == ExistsFound(f, GetEntity(f, path))

\* _getFile: the entity must exist and be a file
GetFileFound(f, found) ==
  IF Len(found) # 1 \/ found[1].isDir THEN Throws(f) ELSE Gives(f, found[1])

GetFile(f, path) == GetFileFound(f, GetEntity(f, path))

GetFileById(f, id) == GetFileFound(f, FindById(f, id))

\* _getDirectoryByPath: a missing entity is false, and false.getStats() throws
GetDirectoryFound(f, found) ==
  IF Len(found) # 1 \/ ~found[1].isDir THEN Throws(f) ELSE Gives(f, found[1])

GetDirectoryByPath(f, path) == GetDirectoryFound(f, GetEntity(f, path))

\* a _updateFileContent that replaces the content and leaves stats.size
UpdateFileContentKeepingSize(f, file, bytes) ==
  [f EXCEPT !.paths =
     [k \in 1..Len(f.paths) |->
        IF f.paths[k].path = SplitPath(GetFullPath(file)).dir
           /\ f.paths[k].name = SplitPath(GetFullPath(file)).name
        THEN [f.paths[k] EXCEPT !.content = bytes]
        ELSE f.paths[k]]]

\* _updateFileContent of an existing file: content and size are replaced
UpdateFileContent(f, file, bytes) ==
  [f EXCEPT !.paths =
     [k \in 1..Len(f.paths) |->
        IF f.paths[k].path = SplitPath(GetFullPath(file)).dir
           /\ f.paths[k].name = SplitPath(GetFullPath(file)).name
        THEN [f.paths[k] EXCEPT !.content = bytes, !.size = Len(bytes)]
        ELSE f.paths[k]]]

\* this.paths.insert({path: dir, name, stats, content: Buffer.alloc(0)})
Insert(f, dir, name, isDir) ==
  [f EXCEPT !.paths = Append(@, [id |-> f.maxId + 1, path |-> dir, name |-> name,
                                 isDir |-> isDir, size |-> 0, content |-> <<>>]),
            !.maxId = @ + 1]

\* _addEntity after the insert: a content is written with _updateFileContent,
\* which insists on a file
AddContent(f, path, content, id) ==
  IF content = <<>> THEN Gives(f, id)
  ELSE IF GetFile(f, path).err THEN Throws(f)
  ELSE Gives(UpdateFileContent(f, GetFile(f, path).value, BufferFrom(content)), id)

\* _addEntity once the parents are dealt with: the path must be free and its
\* directory must exist
AddEntityHere(f, path, isDir, content) ==
  IF ExistsSync(f, path).err \/ ExistsSync(f, SplitPath(path).dir).err THEN Throws(f)
  ELSE IF ExistsSync(f, path).value THEN Throws(f)
  ELSE IF SplitPath(path).dir # <<>> /\ ~ExistsSync(f, SplitPath(path).dir).value
  THEN Throws(f)
  ELSE AddContent(Insert(f, SplitPath(path).dir, SplitPath(path).name, isDir),
                  path, content, f.maxId + 1)

\* MockFs.mkdirSync: addDirectory(path, {}, {noCreateParents: true})
MkdirSync(f, path) == AddEntityHere(f, path, TRUE, <<>>)

\* MockFs.mkdirpSync from position j of the normalized path p on: every
\* prefix that ends before a separator or at the end is made when missing
RECURSIVE MkdirpFrom(_, _, _)
MkdirpFrom(f, p, j) ==
  IF j > Len(p) THEN Gives(f, Null)
  ELSE IF j < Len(p) /\ p[j + 1] # "/" THEN MkdirpFrom(f, p, j + 1)
  ELSE IF ExistsSync(f, SubSeq(p, 1, j)).err THEN Throws(f)
  ELSE IF ExistsSync(f, SubSeq(p, 1, j)).value THEN MkdirpFrom(f, p, j + 1)
  ELSE IF MkdirSync(f, SubSeq(p, 1, j)).err THEN MkdirSync(f, SubSeq(p, 1, j))
  ELSE MkdirpFrom(MkdirSync(f, SubSeq(p, 1, j)).fs, p, j + 1)

\* MockFs.mkdirpSync
MkdirpSync(f, path) == MkdirpFrom(f, NormalizePathSeparators(path), 1)

\* _addEntity
AddEntity(f, path, isDir, content, noCreateParents) ==
  IF noCreateParents THEN AddEntityHere(f, path, isDir, content)
  ELSE IF MkdirpSync(f, SplitPath(path).dir).err THEN MkdirpSync(f, SplitPath(path).dir)
  ELSE AddEntityHere(MkdirpSync(f, SplitPath(path).dir).fs, path, isDir, content)

\* MockFs.addFile(fullPath, {}, content)
AddFile(f, fullPath, content) == AddEntity(f, fullPath, FALSE, content, FALSE)

\* MockFs.addDirectory(fullPath)
AddDirectory(f, fullPath) == AddEntity(f, fullPath, TRUE, <<>>, FALSE)

\* _removeEntity of the normalized path p: the entry, its direct children and
\* every document whose directory begins with p and a separator
RemoveNormalized(f, p) ==
  [f EXCEPT !.paths =
     SelectSeq(@, LAMBDA doc :
       /\ ~(doc.path = SplitPath(p).dir /\ doc.name = SplitPath(p).name)
       /\ doc.path # p
       /\ ~StartsWith(doc.path, p \o <<"/">>))]

\* _removeEntity
RemoveEntity(f, path) == RemoveNormalized(f, NormalizePathSeparators(path))

\* an openSync that hands out the descriptor of a file that is open
OpenFileAgain(f, got) ==
  IF got.err THEN Throws(f)
  ELSE Gives([f EXCEPT !.openFds = @ \cup {got.value.id}], got.value.id)

\* MockFs.openSync(path, 'r'): the file must exist and not be open
OpenFile(f, got) ==
  IF got.err THEN Throws(f)
  ELSE IF got.value.id \in f.openFds THEN Throws(f)
  ELSE Gives([f EXCEPT !.openFds = @ \cup {got.value.id}], got.value.id)

OpenSync(f, path) == OpenFile(f, GetFile(f, path))

\* MockFs.closeSync
CloseSync(f, fd) ==
  IF fd \notin f.openFds THEN Throws(f)
  ELSE Gives([f EXCEPT !.openFds = @ \ {fd}], Null)

\* MockFs.unlinkSync
UnlinkFile(f, got) ==
  IF got.err THEN Throws(f)
  ELSE Gives(RemoveEntity(f, GetFullPath(got.value)), Null)

UnlinkSync(f, path) == UnlinkFile(f, GetFile(f, path))

\* MockFs.rmdirSync
RmdirSync(f, path) == UnlinkFile(f, GetDirectoryByPath(f, path))

\* an error that carries a code, as {code: 'ENOENT', message} does
ThrowsCode(f, code) == [fs |-> f, err |-> TRUE, value |-> Some(code)]

\* MockFs.removePath
RemovePath(f, fullPath) == Gives(RemoveEntity(f, fullPath), Null)

\* _moveEntity, the three updates one after the other on documents: the
\* entry itself, the direct children of o, and the documents whose directory
\* begins with o and a separator; o and n are the normalized paths
MoveEntry(doc, o, n) ==
  IF doc.path = SplitPath(o).dir /\ doc.name = SplitPath(o).name
  THEN [doc EXCEPT !.path = SplitPath(n).dir, !.name = SplitPath(n).name]
  ELSE doc

MoveChild(doc, o, n) == IF doc.path = o THEN [doc EXCEPT !.path = n] ELSE doc

MoveDescendant(doc, o, n) ==
  IF StartsWith(doc.path, o \o <<"/">>)
  THEN [doc EXCEPT !.path = n \o SubstrFrom(doc.path, Len(o))]
  ELSE doc

\* _moveEntity of normalized paths: the directory of the new path must exist
MoveNormalized(f, o, n) ==
  IF ExistsSync(f, SplitPath(n).dir).err THEN Throws(f)
  ELSE IF ~ExistsSync(f, SplitPath(n).dir).value THEN Throws(f)
  ELSE Gives([f EXCEPT !.paths =
                [k \in 1..Len(f.paths) |->
                   MoveDescendant(MoveChild(MoveEntry(f.paths[k], o, n), o, n),
                                  o, n)]], Null)

\* _moveEntity
MoveEntity(f, oldPath, newPath) ==
  MoveNormalized(f, NormalizePathSeparators(oldPath),
                 NormalizePathSeparators(newPath))

\* MockFs.renameSync once the source is looked up: an existing new path is
\* removed first; a missing source is false, and false.getFullPath() throws
RenameFound(f, source, newPath) ==
  IF ExistsSync(f, newPath).err THEN Throws(f)
  ELSE IF Len(source) = 0
  THEN Throws(IF ExistsSync(f, newPath).value THEN RemovePath(f, newPath).fs ELSE f)
  ELSE MoveEntity(IF ExistsSync(f, newPath).value THEN RemovePath(f, newPath).fs
                  ELSE f,
                  GetFullPath(source[1]), newPath)

\* MockFs.renameSync
RenameSync(f, oldPath, newPath) ==
  IF Len(GetEntity(f, oldPath)) > 1 THEN Throws(f)
  ELSE RenameFound(f, GetEntity(f, oldPath), newPath)

\* entity.getStats(): the fields of the stats the model keeps
GetStats(doc) == [size |-> doc.size, isDir |-> doc.isDir]

\* MockFs.statSync: a missing path throws {code: 'ENOENT'}
StatFound(f, found) ==
  IF Len(found) > 1 THEN Throws(f)
  ELSE IF Len(found) = 0 THEN ThrowsCode(f, "ENOENT")
  ELSE Gives(f, GetStats(found[1]))

StatSync(f, path) == StatFound(f, GetEntity(f, path))

\* MockFs.fstatSync: _getFile(fd).getStats()
FstatFile(f, got) == IF got.err THEN Throws(f) ELSE Gives(f, GetStats(got.value))

FstatSync(f, fd) == FstatFile(f, GetFileById(f, fd))

\* a _updateFileContentLength that keeps nothing of the current content
Zeroed(content, newLength) == [i \in 1..newLength |-> 0]

\* _updateFileContentLength: a buffer of newLength zero bytes that gets the
\* first bytes of the current content
Resized(content, newLength) ==
  [i \in 1..newLength |-> IF i <= Len(content) THEN content[i] ELSE 0]

\* MockFs.truncateSync: _updateFileContentLength finds the file and hands the
\* new buffer to _updateFileContent, which updates one document
TruncateFile(f, got, len) ==
  IF got.err THEN Throws(f)
  ELSE Gives(UpdateFileContent(f, got.value, Resized(got.value.content, len)), Null)

TruncateSync(f, path, len) == TruncateFile(f, GetFile(f, path), len)

\* MockFs.ftruncateSync: _getEntity(fd), then truncateSync of its full path
FtruncateFound(f, found, len) ==
  IF Len(found) # 1 THEN Throws(f)
  ELSE TruncateSync(f, GetFullPath(found[1]), len)

FtruncateSync(f, fd, len) == FtruncateFound(f, FindById(f, fd), len)

\* buffer.copy(target, targetStart, sourceStart, sourceEnd) into a fresh
\* buffer of length zero bytes, positions counted from 0
Slice(content, position, length) ==
  [i \in 1..length |->
     IF position + i <= Len(content) THEN content[position + i] ELSE 0]

\* _readEntity and MockFs.readSync: bytesRead is the length asked for
ReadFile(f, got, length, position) ==
  IF got.err THEN Throws(f)
  ELSE Gives(f, [bytesRead |-> length,
                 buffer |-> Slice(got.value.content, position, length)])

ReadSync(f, fd, length, position) == ReadFile(f, GetFileById(f, fd), length, position)

\* _writeEntity and MockFs.writeSync(fd, data): the bytes of data are copied
\* into the content from its start on, as far as the content reaches
WriteFile(f, got, bytes) ==
  IF got.err THEN Throws(f)
  ELSE Gives(UpdateFileContent(f, got.value, BufferCopy(bytes, got.value.content, 0)),
             Len(bytes))

WriteSync(f, fd, data) == WriteFile(f, GetFileById(f, fd), BufferFrom(data))

\* source.copy(target, targetStart, sourceStart, sourceEnd): the target after
\* the copy; the end is cut at the length of the source and the target keeps
\* its length
BufferCopyRange(source, target, targetStart, sourceStart, sourceEnd) ==
  [i \in 1..Len(target) |->
     IF /\ i > targetStart
        /\ sourceStart + (i - targetStart) <= sourceEnd
        /\ sourceStart + (i - targetStart) <= Len(source)
     THEN source[sourceStart + (i - targetStart)] ELSE target[i]]

\* _writeEntity: length, once the default "all of toWrite" has been applied
WriteLength(toWrite, length) == IF length = 0 THEN Len(toWrite) ELSE length

\* _writeEntity past its reading of the arguments: the bytes of toWrite from
\* offset on are copied into the content at position, and the result is the
\* length and a buffer of that length with the same bytes
WriteEntity(f, got, toWrite, offset, length, position) ==
  IF got.err THEN Throws(f)
  ELSE Gives(UpdateFileContent(f, got.value,
               BufferCopyRange(toWrite, got.value.content, position, offset,
                               offset + length)),
             [written |-> length, writtenData |-> Slice(toWrite, offset, length)])

\* MockFs.write(fd, buffer, offset, length, position)
WriteBuffer(f, fd, buffer, offset, length, position) ==
  WriteEntity(f, GetFileById(f, fd), buffer, offset,
              WriteLength(buffer, length), position)

\* the result of _writeEntity for a string: writtenData is decoded
TextResult(r) ==
  IF r.err THEN r
  ELSE Gives(r.fs, [written |-> r.value.written,
                    writtenData |-> BufferToString(r.value.writtenData)])

\* MockFs.write(fd, string, position, encoding) with a string that is not
\* empty: position is taken from offsetOrPosition, which stays the offset
WriteText(f, fd, string, position) ==
  TextResult(WriteEntity(f, GetFileById(f, fd), BufferFrom(string), position,
                         Len(BufferFrom(string)), position))

\* MockFs.writeFileSync: the file is truncated to data.length, the number of
\* characters of data, and data is written through its id
WriteFileFound(f, got, data) ==
  IF got.err THEN Throws(f)
  ELSE IF TruncateSync(f, GetFullPath(got.value), Len(data)).err THEN Throws(f)
  ELSE WriteSync(TruncateSync(f, GetFullPath(got.value), Len(data)).fs,
                 got.value.id, data)

WriteFileSync(f, file, data) == WriteFileFound(f, GetFile(f, file), data)

\* MockFs.setFileContent: _updateFileContent(fullPath, content)
SetContentFound(f, got, content) ==
  IF got.err THEN Throws(f)
  ELSE Gives(UpdateFileContent(f, got.value, BufferFrom(content)), Null)

SetFileContent(f, fullPath, content) == SetContentFound(f, GetFile(f, fullPath), content)

\* MockFs.readdirSync: the names of the documents whose directory is the
\* full path of the directory
ReaddirFound(f, got) ==
  IF got.err THEN Throws(f)
  ELSE Gives(f, [k \in 1..Len(SelectSeq(f.paths, LAMBDA doc : doc.path = GetFullPath(got.value)))
                   |-> SelectSeq(f.paths, LAMBDA doc : doc.path = GetFullPath(got.value))[k].name])

ReaddirSync(f, path) == ReaddirFound(f, GetDirectoryByPath(f, path))

\* MockFs.readFileSync: a buffer of the size of the stats, read from the
\* start of the file
ReadFileFound(f, got) ==
  IF got.err THEN Throws(f)
  ELSE IF ReadSync(f, got.value.id, got.value.size, 0).err THEN Throws(f)
  ELSE Gives(f, ReadSync(f, got.value.id, got.value.size, 0).value.buffer)

ReadFileSync(f, path) == ReadFileFound(f, GetFile(f, path))

\* MockFs.createWriteStream(path) once existsSync has answered: a missing
\* file is added without its parents, an existing one is truncated, and the
\* stream remembers the entity, by its full path
WriteStreamEntity(f, r, path) ==
  IF r.err THEN Throws(f)
  ELSE IF GetFile(r.fs, path).err THEN Throws(r.fs)
  ELSE Gives(r.fs, GetFullPath(GetFile(r.fs, path).value))

CreateWriteStream(f, path) ==
  IF ExistsSync(f, path).err THEN Throws(f)
  ELSE IF ExistsSync(f, path).value
  THEN WriteStreamEntity(f, TruncateSync(f, path, 0), path)
  ELSE WriteStreamEntity(f, AddEntity(f, path, FALSE, <<>>, TRUE), path)

\* MockFs.openSync(path, 'w') from the addFile on: the file the addFile made
\* is opened
OpenAdded(r, path) == IF r.err THEN r ELSE OpenFile(r.fs, GetFile(r.fs, path))

\* MockFs.openSync(path, 'w'): a path that exists is truncated, and then the
\* file is added without its parents, whether the path exists or not
OpenCreate(f, path) ==
  IF ExistsSync(f, path).err THEN Throws(f)
  ELSE IF ~ExistsSync(f, path).value
  THEN OpenAdded(AddEntity(f, path, FALSE, <<>>, TRUE), path)
  ELSE IF TruncateSync(f, path, 0).err THEN Throws(f)
  ELSE OpenAdded(AddEntity(TruncateSync(f, path, 0).fs, path, FALSE, <<>>, TRUE), path)

\* the 'finish' listener of the write stream: _updateFileContent(full path,
\* stream.getContentsAsString()); when the file is gone it throws and
\* nothing is written
StreamFinish(f, fullPath, data) ==
  IF GetFile(f, fullPath).err THEN f
  ELSE UpdateFileContent(f, GetFile(f, fullPath).value, BufferFrom(data))

\* new MockFs(): resetFileSystem adds the root directory to an empty database
NewMockFs ==
  AddDirectory([paths |-> <<>>, maxId |-> 0, openFds |-> {}], <<"/">>).fs

\* the synchronous forms existsSync, openSync, closeSync, unlinkSync,
\* mkdirSync and rmdirSync, by the name of the operation
SyncForm(f, call) ==
  CASE call.op = "exists" -> ExistsSync(f, call.path)
    [] call.op = "open" -> OpenSync(f, call.path)
    [] call.op = "close" -> CloseSync(f, call.fd)
    [] call.op = "unlink" -> UnlinkSync(f, call.path)
    [] call.op = "mkdir" -> MkdirSync(f, call.path)
    [] call.op = "rmdir" -> RmdirSync(f, call.path)

\* a callback-form call that runs its synchronous form on the file system
\* as it was when the call was made
FsRunAtCall(f, call) == SyncForm(call.pre, call)

\* the callback-form operations exists, open, close, unlink, mkdir and rmdir,
\* the body of their process.nextTick callback: the synchronous form runs on
\* the file system f of that moment, and the callback gets the error or the
\* value
FsRun(f, call) == SyncForm(f, call)

-----------------------------------------------------------------------------
(* MockAemServer: an HttpServer whose global callback is processRequest and  *)
(* whose assets are a MockFs.  The URLs of the model are /content/dam and    *)
(* /api/assets URLs: none goes to the create-asset servlet, to wcmcommand or *)
(* to a rendition.                                                           *)

ApiAssets == <<"/", "api", "/", "assets">>

ContentDam == <<"/", "content", "/", "dam">>

JsonSuffix == <<".json">>

\* _isAssetsApiPath
IsAssetsApiPath(path) ==
  \/ path = ApiAssets
  \/ path = ApiAssets \o JsonSuffix
  \/ /\ Len(path) > Len(ApiAssets)
     /\ SubSeq(path, 1, Len(ApiAssets) + 1) = ApiAssets \o <<"/">>

\* _convertAssetsApiPath
ConvertAssetsApiPath(toConvert) ==
  IF IsAssetsApiPath(toConvert)
  THEN ContentDam \o SubstrFrom(toConvert, Len(ApiAssets))
  ELSE toConvert

\* assetPath.replace('/.json', '.json'): the first "/" before a ".json" goes
ReplaceSlashJson(p) ==
  IF \E i \in 1..(Len(p) - 1) : p[i] = "/" /\ p[i + 1] = ".json"
  THEN SubSeq(p, 1, (CHOOSE i \in 1..(Len(p) - 1) :
                       /\ p[i] = "/" /\ p[i + 1] = ".json"
                       /\ \A j \in 1..(i - 1) : ~(p[j] = "/" /\ p[j + 1] = ".json")) - 1)
       \o SubstrFrom(p, CHOOSE i \in 1..(Len(p) - 1) :
                          /\ p[i] = "/" /\ p[i + 1] = ".json"
                          /\ \A j \in 1..(i - 1) : ~(p[j] = "/" /\ p[j + 1] = ".json"))
  ELSE p

\* _getModifiedOptions, what it makes of the URL: the pathname is converted
\* and what follows the pathname stays
GetModifiedUrl(url) ==
  ReplaceSlashJson(ConvertAssetsApiPath(Pathname(url)))
    \o SubstrFrom(url, Len(Pathname(url)))

\* _getModifiedOptions
GetModifiedOptions(options) == [options EXCEPT !.url = GetModifiedUrl(@)]

\* processRequest, the options it goes on with: options.url = fullAssetUrl,
\* the URL of the pathname alone
AssetOptions(options) ==
  [GetModifiedOptions(options) EXCEPT !.url = Pathname(@)]

\* the callback that _doRegisterJsonUrl registers: it keeps the method, the
\* pathname and the URL it was made for
JsonCallback(method, registerUrl) ==
  [method |-> method, pathname |-> Pathname(registerUrl), contentUrl |-> registerUrl]

\* processRequest's _doRegisterJsonUrl, through MockAemServer.isUrlRegistered
\* and MockAemServer.registerUrl
DoRegisterJsonUrl(reg, method, registerUrl) ==
  IF IsUrlRegistered(reg, method, GetModifiedUrl(registerUrl \o JsonSuffix))
  THEN reg
  ELSE RegisterUrl(reg, method, GetModifiedUrl(registerUrl \o JsonSuffix),
                   JsonCallback(method, registerUrl))

\* processRequest's _doUnregisterJsonUrl
DoUnregisterJsonUrl(reg, method, unregisterUrl) ==
  UnregisterUrl(reg, method, GetModifiedUrl(unregisterUrl \o JsonSuffix))

\* the two registrations and the two unregistrations processRequest makes
RegisterJson(reg, url) ==
  DoRegisterJsonUrl(DoRegisterJsonUrl(reg, "GET", url), "HEAD", url)

UnregisterJson(reg, url) ==
  DoUnregisterJsonUrl(DoUnregisterJsonUrl(reg, "GET", url), "HEAD", url)

\* _getEntityData(path, contentUrl, false) throws: statSync finds nothing at
\* the path, or the path is a file and getUrlResponseBody(contentUrl) is null
EntityDataThrows(f, ud, path, contentUrl) ==
  \/ StatSync(f, path).err
  \/ ~StatSync(f, path).value.isDir /\ ~UrlExists(ud, GetModifiedUrl(contentUrl))

\* _getEntityData(path, contentUrl, true) throws: as without the children,
\* or for one of the names readdirSync lists
GetEntityDataThrows(f, ud, path, contentUrl) ==
  \/ EntityDataThrows(f, ud, path, contentUrl)
  \/ /\ StatSync(f, path).value.isDir
     /\ \/ ReaddirSync(f, path).err
        \/ \E k \in 1..Len(ReaddirSync(f, path).value) :
             EntityDataThrows(f, ud,
                              path \o <<"/">> \o ReaddirSync(f, path).value[k],
                              contentUrl \o <<"/">> \o ReaddirSync(f, path).value[k])

\* the headers of an asset response; its Content-Length is the length of a
\* body the model keeps as one token
JsonHeaders == [NoHeaders EXCEPT !.ContentType = "application/json; charset=utf-8"]

\* _getAssetResponse, as the registered callback passes it on:
\* done(null, responseOptions, body)
GetAssetResponse(f, ud, callback) ==
  IF GetEntityDataThrows(f, ud, callback.pathname, callback.contentUrl)
  THEN [err |-> FALSE, res |-> MockIncomingMessage(Options(500, NoHeaders), Str("error"))]
  ELSE [err |-> FALSE,
        res |-> MockIncomingMessage(Options(200, JsonHeaders),
                                    IF callback.method = "GET" THEN Str("entityData")
                                    ELSE Str(""))]

\* what processRequest comes to: the assets, the registered URLs and what it
\* passes to done
Processed(f, reg, hook) == [fs |-> f, registeredUrls |-> reg, hook |-> hook]

\* done(null, options, {statusCode: 404}, e.toString())
DoneNotFound(options) ==
  HookResult(FALSE, Some(options), Some(Options(404, NoHeaders)), Some(<<"error">>))

\* done(null, options)
DoneOptions(options) == HookResult(FALSE, Some(options), Null, Null)

\* processRequest, POST: added is what became of addDirectory or addFile
ProcessPost(reg, options, added) ==
  IF added.err THEN Processed(added.fs, reg, DoneNotFound(options))
  ELSE Processed(added.fs, RegisterJson(reg, options.url), DoneOptions(options))

\* processRequest, PUT: touchFile wants a file
ProcessPut(f, reg, options) ==
  IF GetFile(f, Pathname(options.url)).err
  THEN Processed(f, reg, DoneNotFound(options))
  ELSE Processed(f, reg, DoneOptions(options))

\* processRequest, DELETE
ProcessDelete(f, reg, options) ==
  Processed(RemovePath(f, Pathname(options.url)).fs, UnregisterJson(reg, options.url),
            DoneOptions(options))

\* processRequest, MOVE: a destination in the assets API is converted, in
\* the header too
MoveOptions(options) ==
  IF IsAssetsApiPath(Val(GetDestinationUrl(options)))
  THEN [options EXCEPT !.dest =
          Some([host |-> Val(@).host,
                rest |-> ConvertAssetsApiPath(Val(GetDestinationUrl(options)))])]
  ELSE options

\* processRequest, MOVE from the renameSync on: moved is what became of it
ProcessMoved(reg, url, options, moved) ==
  IF moved.err THEN Processed(moved.fs, reg, DoneNotFound(options))
  ELSE Processed(moved.fs,
                 RegisterJson(UnregisterJson(reg, url), Val(GetDestinationUrl(options))),
                 DoneOptions(options))

\* processRequest, MOVE
ProcessMove(f, reg, options) ==
  IF ~IsSome(GetDestinationUrl(options))
  THEN Processed(f, reg, HookResult(TRUE, Null, Null, Null))
  ELSE ProcessMoved(reg, options.url, MoveOptions(options),
                    RenameSync(f, Pathname(options.url),
                               Val(GetDestinationUrl(MoveOptions(options)))))

\* MockAemServer.processRequest once first-time setup has called back;
\* options are the options it goes on with
ProcessRequest(f, reg, options) ==
  CASE options.method = "POST" ->
         ProcessPost(reg, options,
                     IF options.json THEN AddDirectory(f, Pathname(options.url))
                     ELSE AddEntity(f, Pathname(options.url), FALSE, <<"{", "}">>, TRUE))
    [] options.method = "PUT" -> ProcessPut(f, reg, options)
    [] options.method = "DELETE" -> ProcessDelete(f, reg, options)
    [] options.method = "MOVE" -> ProcessMove(f, reg, options)
    [] OTHER -> Processed(f, reg, DoneOptions(options))

\* getResponse, the completion function handed to processRequest: a URL
\* registered by _doRegisterJsonUrl is answered from the assets f
AssetDispatch(ud, reg, cd, f, options, requestBody, hook) ==
  IF hook.err \/ IsSome(hook.responseOptions)
       \/ ~MapHas(reg, <<options.method, UrlDataKey(options.url)>>)
  THEN Hooked(ud, reg, cd, options, requestBody, hook)
  ELSE Result(Registered(ud, reg, cd,
                         GetAssetResponse(f, ud,
                                          MapGet(reg, <<options.method,
                                                        UrlDataKey(options.url)>>))),
              <<"global", "url">>, options, hook)

\* getResponse of a MockAemServer that is set up, the body of its
\* process.nextTick callback: p is what processRequest came to
AssetResponse(ud, cd, options, requestBody, p) ==
  [fs |-> p.fs,
   result |-> AssetDispatch(ud, p.registeredUrls, cd, p.fs,
                            IF p.hook.err THEN options ELSE Val(p.hook.requestOptions),
                            requestBody, p.hook)]

\* _runFirstTimeSetup's _createDirectory: the options of its POST
CreateDirectoryOptions(directory) ==
  [url |-> directory, method |-> "POST", dest |-> Null, range |-> Null, form |-> Null,
   ignoreCount |-> FALSE, json |-> TRUE]

-----------------------------------------------------------------------------
(* The state machine.  A scheduled getResponse call is a task                *)
(*   [id, options, requestBody, frame, ghost]                                *)
(* where frame.stage = "client" for a call made by a client and otherwise    *)
(* names the handler that waits in _urlExists for the answer.  ghost records *)
(* what the client request has seen so far; it is copied into the log.       *)

Init ==
  /\ urlData = <<>>
  /\ registeredUrls = <<>>
  /\ requestCallback = "default"
  /\ requestedUrls = <<>>
  /\ chunkData = <<>>
  /\ queue = <<>>
  /\ nreq = 0
  /\ log = <<>>
  /\ clients = <<>>
  /\ fs = NewMockFs
  /\ fsLog = <<>>
  /\ streams = <<>>
  /\ setupComplete = FALSE

\* HttpServer.getResponse, the synchronous part: the method defaults to GET
\* and the rest is scheduled with process.nextTick
Schedule(q, id, options, requestBody, frame, ghost) ==
  Append(q, [id |-> id,
             options |-> [options EXCEPT !.method = (IF options.method = "" THEN "GET"
                                                   ELSE options.method)],
             requestBody |-> requestBody, frame |-> frame, ghost |-> ghost])

\* getResponse(options, requestBody, callback) is called by a client while q
\* is the process.nextTick queue
GetResponseCall(q, options, requestBody) ==
  /\ nreq' = nreq + 1
  /\ queue' = Schedule(q, nreq + 1, options, requestBody, NoFrame,
                       [pre |-> urlData, preReg |-> registeredUrls,
                        preCallback |-> requestCallback, preChunk |-> chunkData,
                        submitted |-> options,
                        ran |-> <<>>, requestOptions |-> options,
                        hook |-> RequestCallback("default", options), checks |-> <<>>])
  /\ UNCHANGED <<urlData, registeredUrls, requestCallback, requestedUrls, setupComplete,
                 chunkData, log,
                 fsVars>>

\* a test calls getResponse(options, requestBody, callback) on the server
Submit(options, requestBody) ==
  /\ GetResponseCall(queue, options, requestBody)
  /\ UNCHANGED clients

\* an end() that submits the request whenever it is called
EndAlways(cs, q, n, data) ==
  /\ clients' = [cs EXCEPT ![n].ended = TRUE, ![n].content = @ \o data,
                           ![n].ends = @ + 1, ![n].trips = Append(@, nreq + 1)]
  /\ GetResponseCall(q, cs[n].options,
                     GetContentsAsString([cs[n] EXCEPT !.content = @ \o data]))

\* MockClientRequest.end(data) of client n, where cs are the clients and q is
\* the process.nextTick queue at the call: only the first call writes data
\* and calls getResponse
End(cs, q, n, data) ==
  IF cs[n].ended
  THEN /\ clients' = [cs EXCEPT ![n].ends = @ + 1]
       /\ queue' = q
       /\ UNCHANGED <<urlData, registeredUrls, requestCallback, requestedUrls, setupComplete,
                      chunkData, nreq, log, fsVars>>
  ELSE /\ clients' = [cs EXCEPT ![n].ended = TRUE, ![n].content = @ \o data,
                                ![n].ends = @ + 1, ![n].trips = Append(@, nreq + 1)]
       /\ GetResponseCall(q, cs[n].options,
                          GetContentsAsString([cs[n] EXCEPT !.content = @ \o data]))

\* the entry written to the log when the client's callback is invoked (or
\* will never be)
LogEntry(t, o, ghost) ==
  [id |-> t.id,
   submitted |-> ghost.submitted,
   options |-> ghost.requestOptions,
   requestBody |-> IF t.frame.stage = "client" THEN t.requestBody
                   ELSE t.frame.requestBody,
   kind |-> o.kind, res |-> o.res,
   hook |-> ghost.hook, ran |-> ghost.ran, checks |-> ghost.checks,
   pre |-> ghost.pre, preReg |-> ghost.preReg, preCallback |-> ghost.preCallback,
   preChunk |-> ghost.preChunk,
   post |-> o.urlData, postReg |-> o.registeredUrls, postChunk |-> o.chunkData]

\* what the client request has seen once the call t came to r
Seen(t, r) ==
  IF t.frame.stage = "client"
  THEN [t.ghost EXCEPT !.ran = r.ran, !.requestOptions = r.requestOptions,
                       !.hook = r.hook]
  ELSE [t.ghost EXCEPT !.checks =
          Append(t.ghost.checks,
                 [url |-> t.frame.url, stage |-> t.frame.stage, kind |-> r.out.kind,
                  statusCode |-> r.out.res.statusCode, ran |-> r.ran,
                  hook |-> r.hook])]

\* the tick ends: the server's state is o's, and either another GET is
\* scheduled by _urlExists or the client request is over
Conclude(t, o, ghost) ==
  /\ urlData' = o.urlData
  /\ registeredUrls' = o.registeredUrls
  /\ chunkData' = o.chunkData
  /\ IF o.kind = "exists"
     THEN /\ queue' = Schedule(Tail(queue), t.id, ExistsOptions(o.frame.url),
                               Some(<<>>), o.frame, ghost)
          /\ log' = log
     ELSE /\ queue' = Tail(queue)
          /\ log' = Append(log, LogEntry(t, o, ghost))

\* the call t came to r: a client's call is over with r, a call made by
\* _urlExists continues in the callback of _urlExists
Continue(t, r) ==
  /\ requestedUrls' = CountRequest(requestedUrls, t.options, r.requestOptions)
  /\ \E o \in {IF t.frame.stage = "client" THEN r.out
                ELSE UrlExistsCallback(r.out.urlData, r.out.registeredUrls,
                                       r.out.chunkData, t.frame, r.out)} :
       Conclude(t, o, Seen(t, r))

\* the next process.nextTick callback runs: one getResponse call is processed
\* up to the point where every handler has returned
RunTick ==
  /\ queue # <<>>
  /\ Head(queue).frame.stage \notin {"autoEnd", "fs"}
  /\ \E r \in {GetResponse(urlData, registeredUrls, chunkData, requestCallback,
                          Head(queue).options, Head(queue).requestBody)} :
       Continue(Head(queue), r)
  /\ clients' = IF log' = log THEN clients
                ELSE ResponseCallbacks(clients, log'[Len(log')])
  /\ UNCHANGED <<requestCallback, setupComplete, nreq, fsVars>>

-----------------------------------------------------------------------------
(* The fixture-registration API (synchronous calls of the test).             *)

\* HttpServer.setRequestCallback(callback)
SetRequestCallback(kind) ==
  /\ requestCallback' = kind
  /\ UNCHANGED <<urlData, registeredUrls, requestedUrls, setupComplete,
                 chunkData, queue, nreq, log,
               clients, fsVars>>

\* HttpServer.registerUrl(method, url, callback)
RegisterUrlCall(method, url, kind) ==
  /\ registeredUrls' = RegisterUrl(registeredUrls, method, url, kind)
  /\ UNCHANGED <<urlData, requestCallback, requestedUrls, setupComplete,
                 chunkData, queue, nreq, log,
               clients, fsVars>>

\* HttpServer.setUrlData(url, requestOptions, responseOptions, responseBody)
SetUrlDataCall(url, responseOptions, responseBody) ==
  /\ urlData' = SetUrlData(urlData, url, EmptyOptions, responseOptions, responseBody)
  /\ UNCHANGED <<registeredUrls, requestCallback, requestedUrls, setupComplete,
                 chunkData, queue, nreq, log,
               clients, fsVars>>

-----------------------------------------------------------------------------
(* Inputs and the test that drives the server.                               *)

UA == <<"/", "a">>

UB == <<"/", "b">>

UAB == <<"/", "a", "b">>

UAC == <<"/", "a", "/", "c">>

UBC == <<"/", "b", "/", "c">>

UR == <<"/", "r">>

UAQ == <<"/", "a", "?", "q">>

\* request bodies as MockClientRequest.end passes them: getContentsAsString()
\* is false (Null) for an empty body, else the text
Bodies == {Null, Some(<<"e_acute", "y">>)}

\* a request without headers or form
Plain(method, url) == RequestOptions(url, method, Null, Null, Null, FALSE)

\* a MOVE request with an X-Destination header
MoveTo(url, dest) == RequestOptions(url, "MOVE", dest, Null, Null, FALSE)

PathOnly(p) == Some([host |-> "", rest |-> p])

OnHost(h, p) == Some([host |-> h, rest |-> p])

\* a test that waits for each answer before it goes on: it makes its next
\* call when nothing is scheduled
Idle == queue = <<>>

\* the arrange phase of a test: before its first request
Arranging == Idle /\ nreq = 0

-----------------------------------------------------------------------------
(* Spec: create, replace, delete and read, one request after the other.      *)
(* The test may seed an orphan resource and install one per-URL callback     *)
(* before its first request.                                                 *)

MaxReq == 3

CrudRequests ==
  {[options |-> Plain("", u), requestBody |-> Null] : u \in {UA, UAC, UAQ}}
  \cup {[options |-> Plain("DELETE", UA), requestBody |-> Null]}
  \cup {[options |-> Plain("POST", u), requestBody |-> b] : u \in {UA, UAC}, b \in Bodies}
  \cup {[options |-> Plain("POST", UAQ), requestBody |-> Some(<<"x">>)]}
  \cup {[options |-> Plain("PUT", UA), requestBody |-> b] : b \in Bodies}

SendCrud ==
  \E r \in CrudRequests :
    /\ Idle
    /\ nreq < MaxReq
    /\ Submit(r.options, r.requestBody)

SeedOrphan ==
  /\ Arranging
  /\ urlData = <<>>
  /\ SetUrlDataCall(UAC, EmptyOptions, StrBody(<<"x">>))

InstallUrlCallback ==
  /\ Arranging
  /\ registeredUrls = <<>>
  /\ RegisterUrlCall("GET", UA, "respond")

Next == SendCrud \/ RunTick \/ SeedOrphan \/ InstallUrlCallback

Spec == Init /\ [][Next]_vars

-----------------------------------------------------------------------------
(* SpecMove: a test seeds a small tree, may register a callback under a      *)
(* descendant, and then sends MOVE and GET requests one after the other.     *)

MaxMoveReq == 2

\* the resources a test may seed, in the order it seeds them, and their bodies
SeedUrls == <<UA, UAC, UAB, UB>>

SeedBodies == <<<<"x">>, <<"y">>, <<"e_acute">>, <<"x", "y">>>>

MoveRequests ==
  {[options |-> MoveTo(UA, d), requestBody |-> Null] :
     d \in {Null, PathOnly(<<>>), OnHost("h", UB), PathOnly(UAB)}}
  \cup {[options |-> Plain("", u), requestBody |-> Null] : u \in {UA, UAC, UAB, UB, UBC}}

SeedMove ==
  \E n \in 1..Len(SeedUrls) :
    /\ Arranging
    /\ \A m \in n..Len(SeedUrls) : ~UrlExists(urlData, SeedUrls[m])
    /\ SetUrlDataCall(SeedUrls[n], EmptyOptions, StrBody(SeedBodies[n]))

InstallMoveCallback ==
  /\ Arranging
  /\ registeredUrls = <<>>
  /\ RegisterUrlCall("GET", UAC, "respond")

SendMove ==
  \E r \in MoveRequests :
    /\ Idle
    /\ nreq < MaxMoveReq
    /\ Submit(r.options, r.requestBody)

NextMove == SeedMove \/ InstallMoveCallback \/ SendMove \/ RunTick

SpecMove == Init /\ [][NextMove]_vars

-----------------------------------------------------------------------------
(* SpecHooks: a test installs a global callback and per-URL callbacks, may   *)
(* seed one resource, and then sends requests one after the other.           *)

MaxHookReq == 2

HookKinds == {"error", "respond", "rewrite", "body"}

\* the registrations a test may make, in the order it makes them
Registrations ==
  <<[method |-> "GET", url |-> UA, kind |-> "respond"],
    [method |-> "POST", url |-> UA, kind |-> "error"],
    [method |-> "GET", url |-> UB, kind |-> "error"]>>

HookRequests ==
  {[options |-> Plain("", u), requestBody |-> Null] : u \in {UA, UB, UR}}
  \cup {[options |-> Plain("POST", u), requestBody |-> Some(<<"x">>)] : u \in {UA, UAC}}
  \cup {[options |-> Plain(m, UA), requestBody |-> Null] : m \in {"PUT", "DELETE"}}
  \cup {[options |-> MoveTo(UA, PathOnly(UB)), requestBody |-> Null]}

InstallHook ==
  \E kind \in HookKinds :
    /\ Arranging
    /\ requestCallback = "default"
    /\ SetRequestCallback(kind)

Register ==
  \E n \in 1..Len(Registrations) :
    /\ Arranging
    /\ \A m \in n..Len(Registrations) :
         ~IsUrlRegistered(registeredUrls, Registrations[m].method, Registrations[m].url)
    /\ RegisterUrlCall(Registrations[n].method, Registrations[n].url,
                       Registrations[n].kind)

SeedHooked ==
  /\ Arranging
  /\ urlData = <<>>
  /\ SetUrlDataCall(UA, EmptyOptions, StrBody(<<"x", "y">>))

SendHooked ==
  \E r \in HookRequests :
    /\ Idle
    /\ nreq < MaxHookReq
    /\ Submit(r.options, r.requestBody)

NextHooks == InstallHook \/ Register \/ SeedHooked \/ SendHooked \/ RunTick

SpecHooks == Init /\ [][NextHooks]_vars

-----------------------------------------------------------------------------
(* SpecRange: a test seeds one resource and reads it with a range header.    *)

MaxLen == 4

MaxRangeReq == 1

\* the texts of at most MaxLen characters over {x, y}
Texts == UNION {[1..n -> {"x", "y"}] : n \in 0..MaxLen}

\* the decimal digits of n < 100, as parseInt reads them
DigitsOf(n) ==
  LET d == <<"0", "1", "2", "3", "4", "5", "6", "7", "8", "9">>
  IN IF n < 10 THEN <<d[n + 1]>> ELSE <<d[(n \div 10) + 1], d[(n % 10) + 1]>>

\* the header value 'bytes=s-e'
BytesRange(startByte, endByte) ==
  <<"bytes=">> \o DigitsOf(startByte) \o <<"-">> \o DigitsOf(endByte)

RangeHeaders ==
  {BytesRange(a, b) : a \in 0..MaxLen, b \in 0..MaxLen}
  \cup {<<"bytes=", "-", "1">>, <<"bytes=", "0", "-">>, <<"items=", "0", "-", "1">>}

\* a GET with a range header
Ranged(url, range) == RequestOptions(url, "", Null, Some(range), Null, FALSE)

SeedRange ==
  \E text \in Texts :
    /\ Arranging
    /\ urlData = <<>>
    /\ SetUrlDataCall(UA, EmptyOptions, StrBody(text))

SendRange ==
  \E range \in RangeHeaders :
    /\ Idle
    /\ nreq < MaxRangeReq
    /\ Submit(Ranged(UA, range), Null)

NextRange == SeedRange \/ SendRange \/ RunTick

SpecRange == Init /\ [][NextRange]_vars

-----------------------------------------------------------------------------
(* SpecRead: a test seeds one resource with response options and a body and  *)
(* reads it with GET and HEAD.                                               *)

MaxReadReq == 2

\* the response options a test stores: none, or a status and a header
StoredOptions ==
  {EmptyOptions,
   Options(202, [ContentType |-> "", ContentLength |-> -1, custom |-> "v"])}

\* the bodies a test stores: strings and a Buffer
StoredBodies ==
  <<NoBody, StrBody(<<"x">>), StrBody(<<"e_acute", "y">>), BufBody(<<121, 120>>)>>

ReadRequests ==
  {[options |-> Plain(m, u), requestBody |-> Null] :
     m \in {"", "HEAD"}, u \in {UA, UAQ, UB}}

SeedRead ==
  \E responseOptions \in StoredOptions, n \in 1..Len(StoredBodies) :
    /\ Arranging
    /\ urlData = <<>>
    /\ SetUrlDataCall(UA, responseOptions, StoredBodies[n])

SendRead ==
  \E r \in ReadRequests :
    /\ Idle
    /\ nreq < MaxReadReq
    /\ Submit(r.options, r.requestBody)

NextRead == SeedRead \/ SendRead \/ RunTick

SpecRead == Init /\ [][NextRead]_vars

-----------------------------------------------------------------------------
(* SpecFacade: a test makes requests through request(), with or without a    *)
(* completion callback, an 'error' listener and a stream piped into the      *)
(* request, and may call end() itself; it makes its next request when the    *)
(* previous one is over.  Before its first request it may                    *)
(* install a global callback that fails every request and a per-URL callback *)
(* that fails GET /b.                                                        *)

MaxClients == 1

MaxEnds == 2

FacadeRequests == {Plain("", UB), Plain("POST", UA)}

\* nothing piped, or a MockReadableStream that delivers "x" and then "y"
Sources == {Null, Some(<<<<"x">>, <<"y">>>>)}

\* the deferred end of request() for client n, as it waits in the queue
AutoEnd(n) == [id |-> n, frame |-> [stage |-> "autoEnd"]]

InstallFailingHook ==
  /\ Arranging
  /\ clients = <<>>
  /\ requestCallback = "default"
  /\ SetRequestCallback("error")

RegisterFailingUrl ==
  /\ Arranging
  /\ clients = <<>>
  /\ ~IsUrlRegistered(registeredUrls, "GET", UB)
  /\ RegisterUrlCall("GET", UB, "error")

\* request(urlOrOptions, callback), and what the test does with the returned
\* request before it yields: on('error', ..) and stream.pipe(req)
Request ==
  \E options \in FacadeRequests, responseCallback \in BOOLEAN,
     errorListener \in BOOLEAN, source \in Sources :
    /\ Len(clients) < MaxClients
    /\ Idle
    /\ \A n \in 1..Len(clients) : ~IsSome(clients[n].source)
    /\ clients' = Append(clients, MockClientRequest(options, responseCallback,
                                                    errorListener, source))
    /\ queue' = Append(queue, AutoEnd(Len(clients) + 1))
    /\ UNCHANGED <<urlData, registeredUrls, requestCallback, requestedUrls, setupComplete,
                   chunkData, nreq, log, fsVars>>

\* the test calls req.end(data) itself
EndCall ==
  \E n \in 1..Len(clients), data \in {<<>>, <<"y">>} :
    /\ clients[n].ends < MaxEnds
    /\ End(clients, queue, n, data)

\* request(), its process.nextTick callback: the request is ended unless
\* something was piped into it
AutoEndTick ==
  /\ queue # <<>>
  /\ Head(queue).frame.stage = "autoEnd"
  /\ IF clients[Head(queue).id].doEnd
     THEN End(clients, Tail(queue), Head(queue).id, <<>>)
     ELSE /\ queue' = Tail(queue)
          /\ UNCHANGED <<urlData, registeredUrls, requestCallback, requestedUrls, setupComplete,
                         chunkData, nreq, log, clients, fsVars>>

\* the piped stream of client n delivers: a chunk is written to the request,
\* and after the last chunk the pipe ends the request.  The stream runs on a
\* timer, that is once the process.nextTick queue is empty.
StreamTick ==
  \E n \in 1..Len(clients) :
    /\ queue = <<>>
    /\ IsSome(clients[n].source)
    /\ IF Val(clients[n].source) # <<>>
       THEN /\ clients' = [clients EXCEPT
                             ![n].content = @ \o Head(Val(clients[n].source)),
                             ![n].source = Some(Tail(Val(clients[n].source)))]
            /\ UNCHANGED <<urlData, registeredUrls, requestCallback, requestedUrls, setupComplete,
                           chunkData, queue, nreq, log, fsVars>>
       ELSE End([clients EXCEPT ![n].source = Null], queue, n, <<>>)

NextFacade ==
  InstallFailingHook \/ RegisterFailingUrl \/ Request \/ EndCall \/ AutoEndTick
    \/ StreamTick \/ RunTick

SpecFacade == Init /\ [][NextFacade]_vars

-----------------------------------------------------------------------------
(* SpecRace: a test seeds /a or not and then issues requests on /a without   *)
(* waiting: a request may be issued while the one before it is in flight.    *)

MaxRaceReq == 2

\* the requests of a racing test; the options determine the body
RaceRequests ==
  {[options |-> Plain("", UA), requestBody |-> Null],
   [options |-> Plain("DELETE", UA), requestBody |-> Null],
   [options |-> Plain("PUT", UA), requestBody |-> Some(<<"y">>)],
   [options |-> Plain("POST", UA), requestBody |-> Some(<<"x">>)],
   [options |-> MoveTo(UA, PathOnly(UB)), requestBody |-> Null]}

SeedRace ==
  /\ Arranging
  /\ urlData = <<>>
  /\ SetUrlDataCall(UA, EmptyOptions, StrBody(<<"x", "y">>))

SendRace ==
  \E r \in RaceRequests :
    /\ nreq < MaxRaceReq
    /\ Submit(r.options, r.requestBody)

NextRace == SeedRace \/ SendRace \/ RunTick

SpecRace == Init /\ [][NextRace]_vars

-----------------------------------------------------------------------------
(* SpecChunk: a test uploads to /a in chunks, one POST after the other, with *)
(* form fields file@Offset, chunk@Length and file@Length, and reads /a.      *)

MaxChunkReq == 2

\* the declared length of the file
FileLength == 2

\* the form {'file@Offset': fileOffset, 'chunk@Length': chunkLength,
\* 'file@Length': fileLength}
Form(fileOffset, chunkLength, fileLength) ==
  Some([fileOffset |-> fileOffset, chunkLength |-> chunkLength,
        fileLength |-> fileLength])

\* the texts a chunk carries
ChunkTexts == {<<"x">>, <<"y">>, <<"x", "y">>, <<"e_acute">>}

ChunkRequests ==
  {[options |-> RequestOptions(UA, "POST", Null, Null,
                               Form(fileOffset, chunkLength, FileLength), FALSE),
    requestBody |-> Some(text)] :
     fileOffset \in 0..(FileLength - 1), chunkLength \in 1..FileLength,
     text \in ChunkTexts}
  \cup {[options |-> RequestOptions(UA, "POST", Null, Null,
                                    Form(0, 1, FileLength), FALSE),
         requestBody |-> Null],
        [options |-> RequestOptions(UA, "POST", Null, Null,
                                    Form(0, 0, FileLength), FALSE),
         requestBody |-> Some(<<"x">>)],
        [options |-> Plain("", UA), requestBody |-> Null]}

SendChunk ==
  \E r \in ChunkRequests :
    /\ Idle
    /\ nreq < MaxChunkReq
    /\ Submit(r.options, r.requestBody)

NextChunk == SendChunk \/ RunTick

SpecChunk == Init /\ [][NextChunk]_vars

-----------------------------------------------------------------------------
(* SpecDefer: a test calls getResponse and, at any moment until the request  *)
(* is over, in particular right after the call, installs the global          *)
(* callback.  It then calls callback-form operations of the file system and  *)
(* at any moment, in particular right after a call, adds a file.             *)

MaxDeferReq == 1

MaxFsCalls == 1

\* the paths of the test, and the descriptor it closes (the first file added
\* to a new file system has id 2)
FsPaths == {<<"/", "f">>, <<"/", "d">>}

FsFds == {2}

\* the calls of the test: op(path, callback) or close(fd, callback)
FsRequests ==
  {[op |-> op, path |-> path, fd |-> 0] :
     op \in {"exists", "open", "unlink", "mkdir", "rmdir"}, path \in FsPaths}
  \cup {[op |-> "close", path |-> <<>>, fd |-> fd] : fd \in FsFds}

\* the number of callback-form calls made so far
FsCalls ==
  Len(fsLog) + Cardinality({k \in 1..Len(queue) : queue[k].frame.stage = "fs"})

\* the requests of the test are over
HttpDone == nreq = MaxDeferReq /\ Len(log) = nreq

SendDeferred ==
  /\ nreq < MaxDeferReq
  /\ Submit(Plain("", UA), Null)

InstallLate ==
  /\ ~HttpDone
  /\ requestCallback = "default"
  /\ SetRequestCallback("respond")

\* fs.addFile(path, {}, 'x'), a synchronous call of the test
AddFileCall ==
  \E path \in {<<"/", "f">>, <<"/", "d", "/", "f">>} :
    /\ HttpDone
    /\ ~ExistsSync(fs, path).value
    /\ fs' = AddFile(fs, path, <<"x">>).fs
    /\ UNCHANGED <<httpVars, queue, fsLog, streams>>

\* a callback-form call: everything it does is handed to process.nextTick
FsCall ==
  \E r \in FsRequests :
    /\ HttpDone
    /\ FsCalls < MaxFsCalls
    /\ queue' = Append(queue, [id |-> FsCalls + 1, frame |-> [stage |-> "fs"],
                               op |-> r.op, path |-> r.path, fd |-> r.fd,
                               pre |-> fs])
    /\ UNCHANGED <<httpVars, fsVars>>

\* the process.nextTick callback of a callback-form call runs
FsTick ==
  /\ queue # <<>>
  /\ Head(queue).frame.stage = "fs"
  /\ fs' = FsRun(fs, Head(queue)).fs
  /\ fsLog' = Append(fsLog, [call |-> Head(queue),
                             err |-> FsRun(fs, Head(queue)).err,
                             value |-> FsRun(fs, Head(queue)).value])
  /\ queue' = Tail(queue)
  /\ UNCHANGED <<httpVars, streams>>

NextDefer == SendDeferred \/ InstallLate \/ AddFileCall \/ FsCall \/ FsTick \/ RunTick

SpecDefer == Init /\ [][NextDefer]_vars

-----------------------------------------------------------------------------
(* Vocabulary of the properties.  e and f are entries of log.                *)

\* no callback took part in e: the global callback is the constructor's and
\* the request and each of its existence checks reached the built-in handler
NoHook(e) ==
  /\ e.preCallback = "default"
  /\ e.ran = <<"global", "builtin">>
  /\ \A k \in 1..Len(e.checks) : e.checks[k].ran = <<"global", "builtin">>

\* e ended with a response of the given status
Answered(e, statusCode) == e.kind = "respond" /\ e.res.statusCode = statusCode

\* the resource e addresses
Key(e) == UrlDataKey(e.options.url)

\* the path of u without its last segment; <<>> is the root
ParentPath(u) == SubSeq(Pathname(u), 1, LastIndexOf(Pathname(u), "/") - 1)

\* the parent of u is the root or is stored in ud
HasParent(ud, u) == ParentPath(u) = <<>> \/ MapHas(ud, ParentPath(u))

\* the text and the bytes of a submitted body
BodyText(requestBody) == IF IsSome(requestBody) THEN Val(requestBody) ELSE <<>>

BodyBytes(requestBody) == BufferFrom(BodyText(requestBody))

\* e is a built-in request of the given method without range or form
Is(e, method) ==
  /\ e.options.method = method
  /\ NoHook(e)
  /\ ~IsSome(e.options.range)
  /\ ~IsSome(e.options.form)

\* f is the request that follows e, and it is a built-in GET of e's resource
FollowingGet(i, j) ==
  /\ j = i + 1
  /\ j <= Len(log)
  /\ Is(log[j], "GET")
  /\ Key(log[j]) = Key(log[i])

\* f returns exactly the bytes b, as text and with their length
Returns(f, statusCode, b) ==
  /\ Answered(f, statusCode)
  /\ f.res.body = Buf(b)
  /\ GetBodyAsString(f.res) = BufferToString(b)
  /\ f.res.headers.ContentLength = Len(b)

-----------------------------------------------------------------------------
(* SpecTree: a test works on the tree of a MockFs with synchronous calls:    *)
(* addFile, addDirectory, removePath, renameSync, unlinkSync, rmdirSync and  *)
(* mkdirSync on the paths of a small tree.  fsLog holds the call the test    *)
(* looks at, the file system before and after it, and what it returned or    *)
(* threw.                                                                    *)

\* the ids the file system may hand out: the root and two more entities
MaxId == 3

TreePaths ==
  {<<"/">>, <<"/", "d">>, <<"/", "e">>, <<"/", "d", "/", "f">>}

\* a call of the test
FsCallOf(op, path, dest) == [op |-> op, path |-> path, dest |-> dest]

\* the call comes to r: the file system takes r.fs, and the call is the one
\* the test looks at, which ends the test, or one of those that lead to it
FsDo(call, r) ==
  /\ fsLog = <<>>
  /\ r.fs.maxId <= MaxId
  /\ fs' = r.fs
  /\ \/ fsLog' = fsLog
     \/ fsLog' = <<[call |-> call, pre |-> fs, post |-> r.fs,
                    err |-> r.err, value |-> r.value]>>
  /\ UNCHANGED <<httpVars, queue, streams>>

AddFileSync ==
  \E path \in TreePaths :
    FsDo(FsCallOf("addFile", path, <<>>), AddFile(fs, path, <<"x">>))

AddDirectorySync ==
  \E path \in TreePaths :
    FsDo(FsCallOf("addDirectory", path, <<>>), AddDirectory(fs, path))

RemovePathCall ==
  \E path \in TreePaths :
    FsDo(FsCallOf("removePath", path, <<>>), RemovePath(fs, path))

RenameCall ==
  \E path \in TreePaths, dest \in TreePaths :
    FsDo(FsCallOf("rename", path, dest), RenameSync(fs, path, dest))

UnlinkCall ==
  \E path \in TreePaths :
    FsDo(FsCallOf("unlink", path, <<>>), UnlinkSync(fs, path))

RmdirCall ==
  \E path \in TreePaths :
    FsDo(FsCallOf("rmdir", path, <<>>), RmdirSync(fs, path))

MkdirCall ==
  \E path \in TreePaths :
    FsDo(FsCallOf("mkdir", path, <<>>), MkdirSync(fs, path))

NextTree ==
  \/ AddFileSync \/ AddDirectorySync \/ RemovePathCall \/ RenameCall
  \/ UnlinkCall \/ RmdirCall \/ MkdirCall

SpecTree == Init /\ [][NextTree]_vars

-----------------------------------------------------------------------------
(* SpecParents: the calls of SpecTree and, with them, mkdirpSync,            *)
(* openSync(path, 'w') and createWriteStream with the finish of its stream.  *)

MkdirpCall ==
  \E path \in TreePaths :
    FsDo(FsCallOf("mkdirp", path, <<>>), MkdirpSync(fs, path))

OpenCreateCall ==
  \E path \in TreePaths :
    FsDo(FsCallOf("openCreate", path, <<>>), OpenCreate(fs, path))

\* createWriteStream(path): the stream is the test's until it finishes
StreamDo(call, r) ==
  /\ fsLog = <<>>
  /\ streams = <<>>
  /\ r.fs.maxId <= MaxId
  /\ fs' = r.fs
  /\ streams' = IF r.err THEN streams ELSE <<r.value>>
  /\ \/ fsLog' = fsLog
     \/ fsLog' = <<[call |-> call, pre |-> fs, post |-> r.fs,
                    err |-> r.err, value |-> r.value]>>
  /\ UNCHANGED <<httpVars, queue>>

TreeCreateWriteStream ==
  \E path \in TreePaths :
    StreamDo(FsCallOf("createWriteStream", path, <<>>),
             CreateWriteStream(fs, path))

\* the stream is ended with data written to it, and its 'finish' listener runs
TreeStreamFinish ==
  \E data \in {<<>>, <<"y">>} :
    /\ fsLog = <<>>
    /\ streams # <<>>
    /\ fs' = StreamFinish(fs, Head(streams), data)
    /\ streams' = Tail(streams)
    /\ UNCHANGED <<httpVars, queue, fsLog>>

NextParents ==
  \/ NextTree \/ MkdirpCall \/ OpenCreateCall \/ TreeCreateWriteStream
  \/ TreeStreamFinish

SpecParents == Init /\ [][NextParents]_vars

-----------------------------------------------------------------------------
(* SpecFile: a test works on the files of a MockFs with synchronous calls,   *)
(* descriptors and write streams, on a file /f, a directory /d and a path /g *)
(* that is there only once something was renamed to it or a write stream     *)
(* made it.                                                                  *)

FilePaths == {<<"/", "f">>, <<"/", "d">>, <<"/", "g">>}

\* the descriptors the test uses: the ids the file system may hand out
Fds == 1..MaxId

\* the len argument: left out, or a number
Lens == {Null, Some(1), Some(3)}

\* the default of the parameter len=0
LenArg(len) == IF IsSome(len) THEN Val(len) ELSE 0

\* the strings the test writes
Writes == {<<"y">>}

\* a call of the test on files
FileCallOf(op, path, dest, fd, len, data) ==
  [op |-> op, path |-> path, dest |-> dest, fd |-> fd, len |-> len, data |-> data]

FileAdd ==
  \E content \in {<<>>, <<"x", "y">>} :
    FsDo(FileCallOf("addFile", <<"/", "f">>, <<>>, 0, Null, content),
         AddFile(fs, <<"/", "f">>, content))

FileAddDirectory ==
  FsDo(FileCallOf("addDirectory", <<"/", "d">>, <<>>, 0, Null, <<>>),
       AddDirectory(fs, <<"/", "d">>))

FileOpen ==
  \E path \in FilePaths :
    FsDo(FileCallOf("open", path, <<>>, 0, Null, <<>>), OpenSync(fs, path))

FileClose ==
  \E fd \in Fds :
    FsDo(FileCallOf("close", <<>>, <<>>, fd, Null, <<>>), CloseSync(fs, fd))

\* readSync(fd, buffer, 0, 1, 0)
FileRead ==
  \E fd \in Fds :
    FsDo(FileCallOf("read", <<>>, <<>>, fd, Null, <<>>), ReadSync(fs, fd, 1, 0))

FileWrite ==
  \E fd \in Fds, data \in Writes :
    FsDo(FileCallOf("write", <<>>, <<>>, fd, Null, data), WriteSync(fs, fd, data))

FileFstat ==
  \E fd \in Fds :
    FsDo(FileCallOf("fstat", <<>>, <<>>, fd, Null, <<>>), FstatSync(fs, fd))

FileFtruncate ==
  \E fd \in Fds, len \in Lens :
    FsDo(FileCallOf("ftruncate", <<>>, <<>>, fd, len, <<>>),
         FtruncateSync(fs, fd, LenArg(len)))

FileTruncate ==
  \E path \in FilePaths, len \in Lens :
    FsDo(FileCallOf("truncate", path, <<>>, 0, len, <<>>),
         TruncateSync(fs, path, LenArg(len)))

FileStat ==
  \E path \in FilePaths :
    FsDo(FileCallOf("stat", path, <<>>, 0, Null, <<>>), StatSync(fs, path))

FileReaddir ==
  \E path \in FilePaths :
    FsDo(FileCallOf("readdir", path, <<>>, 0, Null, <<>>), ReaddirSync(fs, path))

FileReadFile ==
  \E path \in FilePaths :
    FsDo(FileCallOf("readFile", path, <<>>, 0, Null, <<>>), ReadFileSync(fs, path))

FileWriteFile ==
  \E path \in FilePaths, data \in Writes :
    FsDo(FileCallOf("writeFile", path, <<>>, 0, Null, data),
         WriteFileSync(fs, path, data))

FileSetContent ==
  \E path \in FilePaths, data \in Writes :
    FsDo(FileCallOf("setFileContent", path, <<>>, 0, Null, data),
         SetFileContent(fs, path, data))

FileUnlink ==
  \E path \in FilePaths :
    FsDo(FileCallOf("unlink", path, <<>>, 0, Null, <<>>), UnlinkSync(fs, path))

FileRmdir ==
  \E path \in FilePaths :
    FsDo(FileCallOf("rmdir", path, <<>>, 0, Null, <<>>), RmdirSync(fs, path))

FileRename ==
  \E path \in FilePaths :
    FsDo(FileCallOf("rename", path, <<"/", "g">>, 0, Null, <<>>),
         RenameSync(fs, path, <<"/", "g">>))

\* createWriteStream(path): the stream is there when the call returned
FileCreateWriteStream ==
  \E path \in {<<"/", "f">>, <<"/", "g">>} :
    /\ fsLog = <<>>
    /\ streams = <<>>
    /\ CreateWriteStream(fs, path).fs.maxId <= MaxId
    /\ fs' = CreateWriteStream(fs, path).fs
    /\ streams' = IF CreateWriteStream(fs, path).err THEN streams
                  ELSE Append(streams, CreateWriteStream(fs, path).value)
    /\ UNCHANGED <<httpVars, queue, fsLog>>

\* what was written to the stream has been flushed and 'finish' is emitted
FileStreamFinish ==
  \E data \in Writes \cup {<<>>} :
    /\ fsLog = <<>>
    /\ streams # <<>>
    /\ fs' = StreamFinish(fs, Head(streams), data)
    /\ streams' = Tail(streams)
    /\ UNCHANGED <<httpVars, queue, fsLog>>

NextFile ==
  \/ FileAdd \/ FileAddDirectory \/ FileOpen \/ FileClose \/ FileRead
  \/ FileWrite \/ FileFstat \/ FileFtruncate \/ FileTruncate \/ FileStat
  \/ FileReaddir \/ FileReadFile \/ FileWriteFile \/ FileSetContent
  \/ FileUnlink \/ FileRmdir \/ FileRename \/ FileCreateWriteStream
  \/ FileStreamFinish

SpecFile == Init /\ [][NextFile]_vars

-----------------------------------------------------------------------------
(* SpecWrite: a test adds the empty file /f, sets its length with            *)
(* truncateSync, and writes to it by descriptor, with a string and a         *)
(* position or with a buffer, an offset, a length and a position, and with   *)
(* writeFile.                                                                *)

MaxWriteLen == 3

WritePath == <<"/", "f">>

WriteFd == 2

\* the strings and the buffers the test writes
WriteTexts == {<<"y">>, <<"x", "y">>}

WriteBuffers == {<<121>>, <<120, 121>>}

\* a write of the test
WriteCallOf(op, data, offset, length, position) ==
  [op |-> op, data |-> data, offset |-> offset, length |-> length,
   position |-> position]

WriteAdd ==
  FsDo(WriteCallOf("addFile", <<>>, 0, 0, 0), AddFile(fs, WritePath, <<>>))

WriteTruncate ==
  \E len \in 0..MaxWriteLen :
    FsDo(WriteCallOf("truncate", <<>>, 0, len, 0), TruncateSync(fs, WritePath, len))

\* write(fd, string, position, 'utf8', callback)
WriteTextCall ==
  \E string \in WriteTexts, position \in 0..1 :
    FsDo(WriteCallOf("writeText", string, 0, 0, position),
         WriteText(fs, WriteFd, string, position))

\* write(fd, buffer, offset, length, position, callback)
WriteBufferCall ==
  \E buffer \in WriteBuffers, offset \in 0..1, length \in 0..2,
     position \in 0..(MaxWriteLen - 1) :
    /\ offset <= Len(buffer)
    /\ FsDo(WriteCallOf("writeBuffer", buffer, offset, length, position),
            WriteBuffer(fs, WriteFd, buffer, offset, length, position))

\* writeFile(path, data, callback)
WriteFileCall ==
  \E data \in WriteTexts \cup {<<"e_acute">>} :
    FsDo(WriteCallOf("writeFile", data, 0, 0, 0), WriteFileSync(fs, WritePath, data))

NextWrite ==
  \/ WriteAdd \/ WriteTruncate \/ WriteTextCall \/ WriteBufferCall \/ WriteFileCall

SpecWrite == Init /\ [][NextWrite]_vars

-----------------------------------------------------------------------------
(* SpecLive: a test installs callbacks and seeds /a as in SpecHooks and      *)
(* issues requests of every built-in method, with and without a range        *)
(* header, one after the other; the process.nextTick queue is always run     *)
(* until it is empty.                                                        *)

MaxLiveReq == 2

LiveRequests ==
  HookRequests
  \cup {[options |-> Plain("HEAD", UA), requestBody |-> Null]}
  \cup {[options |-> Ranged(UA, range), requestBody |-> Null] :
          range \in {BytesRange(0, 1), BytesRange(0, 4), <<"bytes=", "-", "1">>}}

SendLive ==
  \E r \in LiveRequests :
    /\ Idle
    /\ nreq < MaxLiveReq
    /\ Submit(r.options, r.requestBody)

NextLive == InstallHook \/ Register \/ SeedHooked \/ SendLive \/ RunTick

SpecLive == Init /\ [][NextLive]_vars /\ WF_vars(RunTick)

-----------------------------------------------------------------------------
(* SpecStore: a test builds the store with requests alone, starting from the *)
(* empty store: POST, PUT, DELETE and MOVE on /a, /a/c, /b and /b/c, one     *)
(* after the other.                                                          *)

MaxStoreReq == 3

StoreRequests ==
  {[options |-> Plain("POST", u), requestBody |-> Some(<<"x">>)] : u \in {UA, UAC, UB}}
  \cup {[options |-> Plain("PUT", UA), requestBody |-> Some(<<"y">>)]}
  \cup {[options |-> Plain("DELETE", u), requestBody |-> Null] : u \in {UA, UAC}}
  \cup {[options |-> MoveTo(u, PathOnly(d)), requestBody |-> Null] :
          u \in {UA, UAC}, d \in {UB, UBC}}

SendStore ==
  \E r \in StoreRequests :
    /\ Idle
    /\ nreq < MaxStoreReq
    /\ Submit(r.options, r.requestBody)

NextStore == SendStore \/ RunTick

SpecStore == Init /\ [][NextStore]_vars

-----------------------------------------------------------------------------
(* SpecPost: a test seeds /a or not and issues two POST requests, the second *)
(* at any moment after the first: while the first is in flight or after its  *)
(* answer.                                                                   *)

PostRequests ==
  {[options |-> Plain("POST", u), requestBody |-> Some(b)] :
     u \in {UA, UAC}, b \in {<<"x">>, <<"y">>}}

SeedPost ==
  /\ Arranging
  /\ urlData = <<>>
  /\ SetUrlDataCall(UA, EmptyOptions, StrBody(<<"x", "y">>))

PostFirst ==
  \E r \in PostRequests :
    /\ nreq = 0
    /\ Submit(r.options, r.requestBody)

PostSecond ==
  \E r \in PostRequests :
    /\ nreq = 1
    /\ Submit(r.options, r.requestBody)

NextPost == SeedPost \/ PostFirst \/ PostSecond \/ RunTick

SpecPost == Init /\ [][NextPost]_vars

-----------------------------------------------------------------------------
(* SpecAem: a test makes a MockAemServer and sends it requests, each when    *)
(* the one before is answered: folders and assets are created, updated,     *)
(* deleted and moved, and their info URLs are asked for.  A getResponse call *)
(* of the MockAemServer is a task [id, options, requestBody, frame, ghost,   *)
(* setup], where setup.stage is "content" or "dam" for the POST that         *)
(* _runFirstTimeSetup makes for the request with the options setup.options,  *)
(* and "none" otherwise.  fs holds the assets of the server.                 *)

MaxAemReq == 4

DamA == ContentDam \o <<"/", "a">>

DamAC == DamA \o <<"/", "c">>

DamB == ContentDam \o <<"/", "b">>

DamBC == DamB \o <<"/", "c">>

ApiA == ApiAssets \o <<"/", "a">>

\* a request to the MockAemServer; json is the Content-Type header
\* 'application/json; charset=utf-8', which asks for a folder
AemOptions(url, method, dest, json) ==
  [url |-> url, method |-> method, dest |-> dest, range |-> Null, form |-> Null,
   ignoreCount |-> FALSE, json |-> json]

AemRequest(options, requestBody) == [options |-> options, requestBody |-> requestBody]

\* the URLs whose info URL the test asks for
InfoUrls == {DamA, DamAC, DamB, DamBC}

\* the requests that change the server
StoreAemRequests ==
  {AemRequest(AemOptions(url, "POST", Null, TRUE), Some(<<>>)) : url \in {DamA, DamAC, ApiA}}
    \cup {AemRequest(AemOptions(DamAC, "POST", Null, FALSE), Some(<<"x">>)),
          AemRequest(AemOptions(DamAC, "PUT", Null, FALSE), Some(<<"y">>)),
          AemRequest(AemOptions(DamA, "DELETE", Null, FALSE), Some(<<>>)),
          AemRequest(AemOptions(DamA, "MOVE", OnHost("h", DamB), FALSE), Some(<<>>))}

\* the requests for an info URL
InfoRequests ==
  {AemRequest(AemOptions(url \o JsonSuffix, method, Null, FALSE), Some(<<>>)) :
     url \in InfoUrls, method \in {"GET", "HEAD"}}

NoSetup == [stage |-> "none", options |-> ExistsOptions(<<>>), requestBody |-> Null]

\* getResponse of the MockAemServer, the synchronous part
AemSchedule(q, id, options, requestBody, frame, ghost, setup) ==
  Append(q, [id |-> id,
             options |-> [options EXCEPT !.method = (IF options.method = "" THEN "GET"
                                                   ELSE options.method)],
             requestBody |-> requestBody, frame |-> frame, ghost |-> ghost,
             setup |-> setup])

\* new MockAemServer(host, user): processRequest becomes the global callback
NewMockAemServer ==
  /\ requestCallback = "default"
  /\ nreq = 0
  /\ requestCallback' = "aem"
  /\ UNCHANGED <<urlData, registeredUrls, requestedUrls, setupComplete, chunkData,
                 queue, nreq, log, clients, fsVars>>

\* the test calls getResponse(options, requestBody, callback)
AemSubmit(request) ==
  /\ requestCallback = "aem"
  /\ nreq' = nreq + 1
  /\ queue' = AemSchedule(queue, nreq + 1, request.options, request.requestBody, NoFrame,
                          [pre |-> urlData, submitted |-> request.options, ready |-> FALSE],
                          NoSetup)
  /\ UNCHANGED <<urlData, registeredUrls, requestCallback, requestedUrls, setupComplete,
                 chunkData, log, clients, fsVars>>

SendAem ==
  \E request \in StoreAemRequests \cup InfoRequests :
    /\ Idle
    /\ nreq < MaxAemReq
    /\ AemSubmit(request)

\* the entry written to the log when the callback of the test is invoked
AemLogEntry(t, o, ghost) ==
  [id |-> t.id, submitted |-> ghost.submitted, kind |-> o.kind, res |-> o.res,
   pre |-> ghost.pre, ready |-> ghost.ready, post |-> o.urlData]

\* the server's state is o's, its assets are f, and ru are the requests counted
AemState(o, f, ru) ==
  /\ urlData' = o.urlData
  /\ registeredUrls' = o.registeredUrls
  /\ chunkData' = o.chunkData
  /\ fs' = f
  /\ requestedUrls' = ru

\* the call t came to o: _urlExists schedules another GET, or the callback
\* given to getResponse is invoked with o; that callback is the test's
AemFinish(t, o, f, ru, ghost) ==
  /\ AemState(o, f, ru)
  /\ IF o.kind = "exists"
     THEN /\ queue' = AemSchedule(Tail(queue), t.id, ExistsOptions(o.frame.url),
                                  Some(<<>>), o.frame, ghost, NoSetup)
          /\ log' = log
     ELSE /\ queue' = Tail(queue)
          /\ log' = Append(log, AemLogEntry(t, o, ghost))

\* _runFirstTimeSetup, a callback of _createDirectory that reports an error,
\* or a status other than 201, to processRequest, which passes it to done:
\* the request is counted and the test's callback gets the error
SetupFailed(t, o, f, ru) ==
  AemFinish(t,
            Fail(IF o.kind = "respond" THEN "error" ELSE o.kind,
                 o.urlData, o.registeredUrls, o.chunkData),
            f,
            IF o.kind \in {"respond", "error"}
            THEN CountRequest(ru, t.setup.options, t.setup.options) ELSE ru,
            t.ghost)

\* what a getResponse call came to is counted under the options that
\* processRequest went on with, which are the options of the call
AemCount(ru, h) == CountRequest(ru, h.result.requestOptions, h.result.requestOptions)

\* _runFirstTimeSetup, the callback of _createDirectory('/content/dam') with
\* 201: processRequest goes on with the request that waited
SetupDone(t, o, f, ru) ==
  \E h \in {AssetResponse(o.urlData, o.chunkData, t.setup.options, t.setup.requestBody,
                          ProcessRequest(f, o.registeredUrls, t.setup.options))} :
    AemFinish(t, h.result.out, h.fs, AemCount(ru, h),
              [t.ghost EXCEPT !.ready = UrlExists(o.urlData, ContentDam)])

\* what the request of the call t has seen: when processRequest works on the
\* request of a test, whether /content/dam is there
Started(t) ==
  IF t.frame.stage = "client" /\ t.setup.stage = "none"
  THEN [t.ghost EXCEPT !.ready = UrlExists(urlData, ContentDam)]
  ELSE t.ghost

\* the call t came to o: a call of _urlExists that leads to another, the
\* call of a test, or a POST of _runFirstTimeSetup that is answered
AemConclude(t, o, f, ru) ==
  CASE o.kind = "exists" ->
         /\ AemState(o, f, ru)
         /\ queue' = AemSchedule(Tail(queue), t.id, ExistsOptions(o.frame.url),
                                 Some(<<>>), o.frame, Started(t), t.setup)
         /\ log' = log
    [] o.kind # "exists" /\ t.setup.stage = "none" -> AemFinish(t, o, f, ru, Started(t))
    [] o.kind # "exists" /\ t.setup.stage = "content" ->
         IF o.kind = "respond" /\ o.res.statusCode = 201
         THEN /\ AemState(o, f, ru)
              /\ queue' = AemSchedule(Tail(queue), t.id, CreateDirectoryOptions(ContentDam),
                                      Some(<<>>), NoFrame, t.ghost,
                                      [t.setup EXCEPT !.stage = "dam"])
              /\ log' = log
         ELSE SetupFailed(t, o, f, ru)
    [] o.kind # "exists" /\ t.setup.stage = "dam" ->
         IF o.kind = "respond" /\ o.res.statusCode = 201
         THEN SetupDone(t, o, f, ru)
         ELSE SetupFailed(t, o, f, ru)

\* the outcome of the getResponse call t that came to h: a call made by
\* _urlExists goes on in the callback of _urlExists
AemOutcome(t, h) ==
  IF t.frame.stage = "client" THEN h.result.out
  ELSE UrlExistsCallback(h.result.out.urlData, h.result.out.registeredUrls,
                         h.result.out.chunkData, t.frame, h.result.out)

\* processRequest of a server that is not set up: _runFirstTimeSetup sets
\* setupComplete and posts /content, and the request waits
AemSetup(t) ==
  /\ setupComplete' = TRUE
  /\ queue' = AemSchedule(Tail(queue), t.id, CreateDirectoryOptions(<<"/", "content">>),
                          Some(<<>>), NoFrame, t.ghost,
                          [stage |-> "content", options |-> AssetOptions(t.options),
                           requestBody |-> t.requestBody])
  /\ UNCHANGED <<urlData, registeredUrls, requestedUrls, chunkData, log, fs>>

\* processRequest of a server that is set up, and the rest of the tick
AemRun(t) ==
  /\ setupComplete' = setupComplete
  /\ \E h \in {AssetResponse(urlData, chunkData, AssetOptions(t.options), t.requestBody,
                            ProcessRequest(fs, registeredUrls, AssetOptions(t.options)))} :
       \E o \in {AemOutcome(t, h)} : AemConclude(t, o, h.fs, AemCount(requestedUrls, h))

\* the next process.nextTick callback runs: one getResponse call of the
\* MockAemServer is processed up to the point where every handler has
\* returned
AemTick ==
  /\ queue # <<>>
  /\ IF setupComplete THEN AemRun(Head(queue)) ELSE AemSetup(Head(queue))
  /\ UNCHANGED <<requestCallback, nreq, clients, fsLog, streams>>

NextAem == NewMockAemServer \/ SendAem \/ AemTick

SpecAem == Init /\ [][NextAem]_vars

-----------------------------------------------------------------------------
(* SpecAemRace: a test makes a MockAemServer and sends it its first two      *)
(* requests, for two different URLs: the second when the first is answered,  *)
(* or both at once, before anything has run.                                 *)

\* requests that are answered alike whichever of them comes first, once
\* /content/dam is there: 201 for the two POSTs, 200 for the GET and the HEAD
AemRaceRequests ==
  {AemRequest(AemOptions(DamA, "POST", Null, TRUE), Some(<<>>)),
   AemRequest(AemOptions(DamB, "POST", Null, FALSE), Some(<<"x">>)),
   AemRequest(AemOptions(ContentDam, "GET", Null, FALSE), Some(<<>>)),
   AemRequest(AemOptions(ContentDam \o JsonSuffix, "HEAD", Null, FALSE), Some(<<>>))}

\* the URL of the first request
FirstUrl ==
  IF log # <<>> THEN log[1].submitted.url ELSE Head(queue).ghost.submitted.url

SendFirst ==
  \E request \in AemRaceRequests :
    /\ nreq = 0
    /\ AemSubmit(request)

\* the second request is sent with the first, or when the first is answered
SendSecond ==
  \E request \in AemRaceRequests :
    /\ nreq = 1
    /\ Idle \/ (Len(queue) = 1 /\ ~setupComplete)
    /\ request.options.url # FirstUrl
    /\ AemSubmit(request)

NextAemRace == NewMockAemServer \/ SendFirst \/ SendSecond \/ AemTick

SpecAemRace == Init /\ [][NextAemRace]_vars

-----------------------------------------------------------------------------
(* Properties of Spec.                                                       *)

SameElsewhere(e) ==
  /\ MapDel(e.post, Key(e)) = MapDel(e.pre, Key(e))
  /\ e.postReg = e.preReg

\* e changed neither the store nor the registered callbacks
Unchanged(e) == e.post = e.pre /\ e.postReg = e.preReg

C6_Put ==
  \A i \in 1..Len(log) :
    Is(log[i], "PUT")
    => IF UrlExists(log[i].pre, log[i].options.url)
       THEN /\ Answered(log[i], 200)
            /\ UrlExists(log[i].post, log[i].options.url)
            /\ GetUrlResponseBody(log[i].post, log[i].options.url)
                 = BodyBytes(log[i].requestBody)
            /\ SameElsewhere(log[i])
            /\ \A j \in 1..Len(log) :
                 FollowingGet(i, j)
                 => /\ Returns(log[j], 200, BodyBytes(log[i].requestBody))
                    /\ GetBodyAsString(log[j].res) = BodyText(log[i].requestBody)
       ELSE /\ Answered(log[i], 404)
            /\ Unchanged(log[i])

\* an empty body was replaced by a non-ASCII one and read back
C6_Witness ==
  \E i \in 1..Len(log) :
    /\ Is(log[i], "PUT")
    /\ UrlExists(log[i].pre, UA)
    /\ GetUrlResponseBody(log[i].pre, UA) = <<>>
    /\ log[i].requestBody = Some(<<"e_acute", "y">>)
    /\ Answered(log[i], 200)
    /\ FollowingGet(i, i + 1)
    /\ Returns(log[i + 1], 200, <<195, 169, 121>>)

\* u is absent after each of the requests i+1 .. j-1
NotCreatedBetween(i, j) ==
  \A k \in (i + 1)..(j - 1) : ~UrlExists(log[k].post, log[i].options.url)

\* C7: a DELETE of u returns 200 if u exists and 404 if it does not, and
\* every later GET of u returns 404 as long as u has not been created again
C7_Delete ==
  \A i \in 1..Len(log) :
    Is(log[i], "DELETE")
    => /\ Answered(log[i], IF UrlExists(log[i].pre, log[i].options.url)
                           THEN 200 ELSE 404)
       /\ ~UrlExists(log[i].post, log[i].options.url)
       /\ \A j \in (i + 1)..Len(log) :
            (Is(log[j], "GET") /\ Key(log[j]) = Key(log[i]) /\ NotCreatedBetween(i, j))
            => Answered(log[j], 404)

\* an existing resource was deleted (200) and the GET after it returned 404
C7_Witness ==
  \E i \in 1..Len(log) :
    /\ Is(log[i], "DELETE")
    /\ UrlExists(log[i].pre, UA)
    /\ Answered(log[i], 200)
    /\ FollowingGet(i, i + 1)
    /\ Answered(log[i + 1], 404)

-----------------------------------------------------------------------------
(* Properties of SpecMove.                                                   *)

\* the destination path of the MOVE e, when its header has one
HasDest(e) == IsSome(e.options.dest) /\ IsSome(DestPathname(Val(e.options.dest)))

Dest(e) == Val(DestPathname(Val(e.options.dest)))

\* k is a strict path-descendant of the resource the MOVE e addresses
Descendant(e, k) == StartsWith(k, Key(e) \o <<"/">>)

\* the path under the destination that corresponds to the descendant k
Rebased(e, k) == Dest(e) \o SubstrFrom(k, Len(Key(e)))

\* the store after the MOVE e, as C4 describes it
MovedStore(e) ==
  /\ ~MapHas(e.post, Key(e))
  /\ MapHas(e.post, Dest(e))
  /\ MapGet(e.post, Dest(e)).responseBody = MapGet(e.pre, Key(e)).responseBody
  /\ \A n \in 1..Len(e.pre) :
       Descendant(e, e.pre[n].key)
       => /\ ~MapHas(e.post, e.pre[n].key)
          /\ MapHas(e.post, Rebased(e, e.pre[n].key))
          /\ MapGet(e.post, Rebased(e, e.pre[n].key)).responseBody
               = e.pre[n].val.responseBody

\* the registered callbacks after the MOVE e, as C4 describes them
MovedCallbacks(e) ==
  \A n \in 1..Len(e.preReg) :
    Descendant(e, e.preReg[n].key[2])
    => /\ MapHas(e.postReg, <<e.preReg[n].key[1], Rebased(e, e.preReg[n].key[2])>>)
       /\ MapGet(e.postReg, <<e.preReg[n].key[1], Rebased(e, e.preReg[n].key[2])>>)
            = e.preReg[n].val

\* the GET f that follows the MOVE e is answered as C4 says
MovedGet(e, f) ==
  /\ (Key(f) = Key(e) \/ (MapHas(e.pre, Key(f)) /\ Descendant(e, Key(f))))
     => (NoHook(f) => Answered(f, 404))
  /\ Key(f) = Dest(e)
     => (NoHook(f) => Returns(f, 200, MapGet(e.pre, Key(e)).responseBody))
  /\ \A n \in 1..Len(e.pre) :
       (Descendant(e, e.pre[n].key) /\ Key(f) = Rebased(e, e.pre[n].key))
       => (NoHook(f) => Returns(f, 200, e.pre[n].val.responseBody))
  /\ \A n \in 1..Len(e.preReg) :
       (/\ Descendant(e, e.preReg[n].key[2])
        /\ e.preReg[n].key[1] = "GET"
        /\ Key(f) = Rebased(e, e.preReg[n].key[2]))
       => /\ f.ran = <<"global", "url">>
          /\ f.res = UrlCallback(e.preReg[n].val, f.options).res

\* C4: after a MOVE of s to d returned 201, s and every descendant of s are
\* gone (GET 404), d has the body s had, every descendant is stored under d
\* with the body it had, and the callbacks registered under descendants of s
\* answer at the corresponding paths under d
C4_Move ==
  \A i \in 1..Len(log) :
    (Is(log[i], "MOVE") /\ Answered(log[i], 201))
    => /\ MovedStore(log[i])
       /\ MovedCallbacks(log[i])
       /\ \A j \in 1..Len(log) :
            (j = i + 1 /\ log[j].options.method = "GET")
            => MovedGet(log[i], log[j])

\* a MOVE addressed a resource the store does not have
SourceAbsent(e) == ~UrlExists(e.pre, e.options.url)

\* C5: a MOVE is answered 400 when its destination header is missing or has
\* no path, whether or not the source exists, else 404 when the source is
\* absent, else 409 when the destination exists; in each of these cases, and
\* whenever the answer is not 201, the store and the registered callbacks are
\* what they were
C5_MoveFails ==
  \A i \in 1..Len(log) :
    Is(log[i], "MOVE")
    => /\ ~HasDest(log[i]) => Answered(log[i], 400)
       /\ (HasDest(log[i]) /\ SourceAbsent(log[i])) => Answered(log[i], 404)
       /\ (HasDest(log[i]) /\ ~SourceAbsent(log[i]) /\ MapHas(log[i].pre, Dest(log[i])))
          => Answered(log[i], 409)
       /\ ~Answered(log[i], 201) => Unchanged(log[i])

\* a MOVE onto an existing resource with a different body was refused (409),
\* a MOVE without destination was refused (400) although its source exists
C5_Witness ==
  \E i \in 1..Len(log), j \in 1..Len(log) :
    /\ Is(log[i], "MOVE") /\ Answered(log[i], 409)
    /\ MapGet(log[i].pre, Key(log[i])).responseBody
         # MapGet(log[i].pre, Dest(log[i])).responseBody
    /\ log[i].preReg # <<>>
    /\ Unchanged(log[i])
    /\ Is(log[j], "MOVE") /\ Answered(log[j], 400)
    /\ ~SourceAbsent(log[j])
    /\ Unchanged(log[j])

-----------------------------------------------------------------------------
(* Properties of SpecHooks.                                                  *)

\* the options a client submitted, with the method defaulted
Submitted(e) ==
  [e.submitted EXCEPT !.method = (IF e.submitted.method = "" THEN "GET"
                                  ELSE e.submitted.method)]

\* a callback is registered for the effective method and URL of e
HasUrlCallback(e) == MapHas(e.preReg, <<e.options.method, Key(e)>>)

\* the body the global callback of e supplied, as the response carries it
HookBody(e) ==
  IF IsSome(e.hook.responseBody) /\ Val(e.hook.responseBody) # <<>>
  THEN Buf(BufferFrom(Val(e.hook.responseBody))) ELSE NullBody

\* the answer of e is that of the callback registered for it
AnsweredByUrlCallback(e) ==
  /\ e.ran = <<"global", "url">>
  /\ IF UrlCallback(MapGet(e.preReg, <<e.options.method, Key(e)>>), e.options).err
     THEN e.kind = "error"
     ELSE /\ e.kind = "respond"
          /\ e.res = UrlCallback(MapGet(e.preReg, <<e.options.method, Key(e)>>),
                                 e.options).res

\* C8: the global callback is consulted first, with the submitted options;
\* when it supplies response options they are the response and neither the
\* per-URL callback nor the built-in handler runs; otherwise a callback
\* registered for the effective method and URL gives the response and the
\* built-in handler does not run; otherwise the built-in handler runs.  The
\* store changes in the last case only.
C8_Dispatch ==
  \A i \in 1..Len(log) :
    /\ log[i].hook = RequestCallback(log[i].preCallback, Submitted(log[i]))
    /\ log[i].options = IF IsSome(log[i].hook.requestOptions)
                        THEN Val(log[i].hook.requestOptions) ELSE Submitted(log[i])
    /\ IF log[i].hook.err
       THEN log[i].ran = <<"global">> /\ log[i].kind = "error"
       ELSE IF IsSome(log[i].hook.responseOptions)
       THEN /\ log[i].ran = <<"global">>
            /\ Answered(log[i], Val(log[i].hook.responseOptions).statusCode)
            /\ log[i].res.body = HookBody(log[i])
       ELSE IF HasUrlCallback(log[i])
       THEN AnsweredByUrlCallback(log[i])
       ELSE log[i].ran = <<"global", "builtin">>
    /\ log[i].ran # <<"global", "builtin">>
       => Unchanged(log[i]) /\ log[i].checks = <<>>

\* the global callback answered a GET of a stored resource for which a
\* callback was registered too, and a registered callback answered a request
\* the global callback passed on
C8_Witness ==
  \E i \in 1..Len(log), j \in 1..Len(log) :
    /\ ~log[i].hook.err
    /\ IsSome(log[i].hook.responseOptions)
    /\ log[i].options.method = "GET"
    /\ HasUrlCallback(log[i])
    /\ log[i].res.body # UrlCallback(MapGet(log[i].preReg, <<"GET", Key(log[i])>>),
                                     log[i].options).res.body
    /\ log[i].ran = <<"global">>
    /\ log[i].pre # <<>>
    /\ ~log[j].hook.err
    /\ ~IsSome(log[j].hook.responseOptions)
    /\ HasUrlCallback(log[j])
    /\ log[j].ran = <<"global", "url">>
    /\ log[j].kind = "error"

\* what the pipeline does with the GET of an existence check of e
CheckRan(e, c) ==
  IF c.hook.err \/ IsSome(c.hook.responseOptions) THEN <<"global">>
  ELSE IF MapHas(e.preReg, <<"GET", UrlDataKey(c.url)>>) THEN <<"global", "url">>
  ELSE <<"global", "builtin">>

\* the check c answered 200 for a URL the store of e does not have
ClaimsExistence(e, c) ==
  c.kind = "respond" /\ c.statusCode = 200 /\ ~MapHas(e.pre, UrlDataKey(c.url))

\* C9: each existence check of a built-in POST, PUT, DELETE or MOVE is a GET
\* that passes through the global callback and then the per-URL callback or
\* the built-in GET; a check that answers 200 for a URL without store entry
\* ends the request with an error and the store is unchanged
C9_ExistenceCheck ==
  \A i \in 1..Len(log) :
    (/\ log[i].ran = <<"global", "builtin">>
     /\ log[i].options.method \in {"POST", "PUT", "DELETE", "MOVE"})
    => /\ log[i].checks # <<>>
       /\ \A k \in 1..Len(log[i].checks) :
            /\ log[i].checks[k].hook
                 = RequestCallback(log[i].preCallback,
                                   [Plain("GET", log[i].checks[k].url)
                                      EXCEPT !.ignoreCount = TRUE])
            /\ log[i].checks[k].ran = CheckRan(log[i], log[i].checks[k])
            /\ ClaimsExistence(log[i], log[i].checks[k])
               => /\ k = Len(log[i].checks)
                  /\ log[i].kind = "error"
                  /\ Unchanged(log[i])

\* a registered callback answered the existence check of a DELETE for a URL
\* the store does not have, and the DELETE ended with an error
C9_Witness ==
  \E i \in 1..Len(log) :
    /\ log[i].options.method = "DELETE"
    /\ log[i].ran = <<"global", "builtin">>
    /\ log[i].pre = <<>>
    /\ Len(log[i].checks) = 1
    /\ log[i].checks[1].ran = <<"global", "url">>
    /\ ClaimsExistence(log[i], log[i].checks[1])
    /\ log[i].kind = "error"

-----------------------------------------------------------------------------
(* Properties of SpecRange.                                                  *)

\* e is a built-in GET of a stored resource with the header 'bytes=s-e'
RangedGet(e) ==
  /\ e.options.method = "GET"
  /\ NoHook(e)
  /\ UrlExists(e.pre, e.options.url)
  /\ IsSome(e.options.range)
  /\ IsSome(RangeMatch(Val(e.options.range)))

StartByte(e) == Val(RangeMatch(Val(e.options.range))).startByte

EndByte(e) == Val(RangeMatch(Val(e.options.range))).endByte

Stored(e) == GetUrlResponseBody(e.pre, e.options.url)

\* C10: a GET of a stored resource of length L with the header 'bytes=s-e',
\* 0 <= s < e < L, returns 206, the bytes s..e of the stored body, and the
\* Content-Length e - s + 1
C10_Range ==
  \A i \in 1..Len(log) :
    (/\ RangedGet(log[i])
     /\ 0 <= StartByte(log[i])
     /\ StartByte(log[i]) < EndByte(log[i])
     /\ EndByte(log[i]) < Len(Stored(log[i])))
    => /\ Returns(log[i], 206,
                  SubSeq(Stored(log[i]), StartByte(log[i]) + 1, EndByte(log[i]) + 1))
       /\ log[i].res.headers.ContentLength = EndByte(log[i]) - StartByte(log[i]) + 1

\* e is a built-in GET of a stored resource that carries a range header
HasRange(e) ==
  /\ e.options.method = "GET"
  /\ NoHook(e)
  /\ UrlExists(e.pre, e.options.url)
  /\ IsSome(e.options.range)

\* the range header of e is not of the form 'bytes=s-e'
Malformed(e) == ~IsSome(RangeMatch(Val(e.options.range)))

\* the range header of e is well formed and names no slice of the body
OutOfBounds(e) ==
  /\ ~Malformed(e)
  /\ \/ StartByte(e) >= EndByte(e)
     \/ EndByte(e) >= Len(Stored(e))

\* C11: a GET of a stored resource whose range header is malformed or out of
\* bounds (start >= end, or end >= the body length) ends with a 400 response
\* handed to the caller
C11_InvalidRange ==
  \A i \in 1..Len(log) :
    (HasRange(log[i]) /\ (Malformed(log[i]) \/ OutOfBounds(log[i])))
    => Answered(log[i], 400)

-----------------------------------------------------------------------------
(* Properties of SpecRead.                                                   *)

\* e is a built-in request of the given method for a stored resource
Reads(e, method) == Is(e, method) /\ UrlExists(e.pre, e.options.url)

\* the response of e carries no body
NoBodyDelivered(e) == e.res.body.t = "null" \/ GetBodyAsString(e.res) = <<>>

\* C12: a HEAD of a stored resource returns 200 with the length of the stored
\* body as Content-Length and no body; a GET of it returns the body
C12_Head ==
  \A i \in 1..Len(log) :
    /\ Reads(log[i], "HEAD")
       => /\ Answered(log[i], 200)
          /\ log[i].res.headers.ContentLength = Len(Stored(log[i]))
          /\ NoBodyDelivered(log[i])
    /\ Reads(log[i], "GET") => Returns(log[i], 200, Stored(log[i]))

\* the response options stored for the resource e addresses
StoredResponseOptions(e) == GetUrlResponseOptions(e.pre, e.options.url)

\* C13: a GET or HEAD of a resource stored with setUrlData is answered with
\* the stored response options (status code and headers), and a GET with the
\* stored body
C13_StoredOptions ==
  \A i \in 1..Len(log) :
    /\ (Reads(log[i], "GET") \/ Reads(log[i], "HEAD"))
       => /\ log[i].kind = "respond"
          /\ StoredResponseOptions(log[i]).statusCode # 0
             => log[i].res.statusCode = StoredResponseOptions(log[i]).statusCode
          /\ log[i].res.headers.custom = StoredResponseOptions(log[i]).headers.custom
    /\ Reads(log[i], "GET") => log[i].res.body = Buf(Stored(log[i]))

-----------------------------------------------------------------------------
(* Properties of SpecHooks: the request record.                              *)

\* the methods and URLs a test asks the record about
CountedMethods == {"GET", "POST", "PUT", "DELETE", "MOVE"}

CountedUrls == {UA, UB, UR, UAC}

\* the completed client requests that were to be counted under (method, url),
\* in submission order
CountedAs(method, url) ==
  SelectSeq(log, LAMBDA e : /\ ~e.submitted.ignoreCount
                            /\ e.options.method = method
                            /\ e.options.url = url)

\* the record of (method, url) reads as the sequence recs of options: the
\* count, every index, the omitted and the negative index, and the indices
\* out of range
ReadsAs(method, url, recs) ==
  /\ GetRequestedUrlCount(requestedUrls, method, url) = Len(recs)
  /\ \A i \in 0..(Len(recs) - 1) :
       GetRequestedUrlOptions(requestedUrls, method, url, i) = Some(recs[i + 1])
  /\ \A i \in {-2, -1} :
       GetRequestedUrlOptions(requestedUrls, method, url, i)
         = (IF recs = <<>> THEN Null ELSE Some(recs[Len(recs)]))
  /\ GetRequestedUrlOptions(requestedUrls, method, url, Len(recs)) = Null

-----------------------------------------------------------------------------
(* Properties of SpecFacade.                                                 *)

\* the getResponse call that log entry e ended was made by client c
MadeBy(c, e) == \E k \in 1..Len(c.trips) : c.trips[k] = e.id

\* the global callback or a per-URL callback failed the request of e
CallbackFailed(e) ==
  /\ e.kind = "error"
  /\ \/ e.ran = <<"global">> /\ e.hook.err
     \/ e.ran = <<"global", "url">>
          /\ UrlCallback(MapGet(e.preReg, <<e.options.method, Key(e)>>), e.options).err

\* C15: when the global callback or a per-URL callback signals an error for
\* the request of a client, the completion callback, if one was given, has
\* been invoked exactly once, with the error and without response or body;
\* no 'response' event was emitted; an attached 'error' listener has received
\* exactly one 'error' event; and with a callback and no listener nothing
\* was emitted and nothing thrown
C15_ErrorDelivery ==
  \A n \in 1..Len(clients), i \in 1..Len(log) :
    MadeBy(clients[n], log[i]) /\ CallbackFailed(log[i]) =>
      /\ clients[n].calls = (IF clients[n].responseCallback
                             THEN <<[err |-> TRUE, res |-> Null, body |-> Null]>>
                             ELSE <<>>)
      /\ clients[n].errorListener => clients[n].events = <<"error">>
      /\ clients[n].responseCallback /\ ~clients[n].errorListener =>
           clients[n].events = <<>>

\* a per-URL callback failed the request of a client that gave a callback
\* and attached no 'error' listener
C15_Witness ==
  \E n \in 1..Len(clients), i \in 1..Len(log) :
    /\ MadeBy(clients[n], log[i]) /\ CallbackFailed(log[i])
    /\ log[i].ran = <<"global", "url">>
    /\ clients[n].responseCallback /\ ~clients[n].errorListener
    /\ Len(clients[n].calls) = 1

\* the deferred end of client n has run
AutoEndRan(n) == \A k \in 1..Len(queue) : queue[k] # AutoEnd(n)

\* the text of all the chunks of a stream
RECURSIVE Whole(_)
Whole(chunks) == IF chunks = <<>> THEN <<>> ELSE Head(chunks) \o Whole(Tail(chunks))

\* the request body of the getResponse call with the given id, Null when
\* the call has not completed
BodySubmitted(id) ==
  IF \E i \in 1..Len(log) : log[i].id = id
  THEN Some((CHOOSE e \in {log[i] : i \in 1..Len(log)} : e.id = id).requestBody)
  ELSE Null

\* C18: a request facade calls getResponse at most once, however often it is
\* ended, and exactly once when it has been ended; a request with nothing
\* piped into it has been ended once its deferred tick has run; a request
\* with a stream piped into it straight after creation is not ended by that
\* tick, has been ended once the stream has finished, and, when nothing but
\* the pipe ended it, the body submitted is the whole text of the stream
C18_OneRoundTrip ==
  \A n \in 1..Len(clients) :
    /\ Len(clients[n].trips) <= 1
    /\ clients[n].ended <=> Len(clients[n].trips) = 1
    /\ clients[n].ends > 0 => clients[n].ended
    /\ ~IsSome(clients[n].piped) /\ AutoEndRan(n) => clients[n].ended
    /\ IsSome(clients[n].piped) /\ clients[n].ends = 0 => ~clients[n].ended
    /\ IsSome(clients[n].piped) /\ ~IsSome(clients[n].source) =>
         /\ clients[n].ended
         /\ clients[n].ends = 1 /\ IsSome(BodySubmitted(clients[n].trips[1])) =>
              Val(BodySubmitted(clients[n].trips[1]))
                = Some(Whole(Val(clients[n].piped)))

\* the stream piped into a request has finished and ended it, the server
\* has answered, and the test has called end() once more
C18_Witness ==
  \E n \in 1..Len(clients) :
    /\ IsSome(clients[n].piped) /\ ~IsSome(clients[n].source)
    /\ AutoEndRan(n)
    /\ clients[n].ends = 2
    /\ clients[n].trips = <<1>>
    /\ BodySubmitted(1) = Some(Some(Whole(Val(clients[n].piped))))
    /\ Idle

-----------------------------------------------------------------------------
(* Properties of SpecRace.                                                   *)

\* the outcome o of a handler, carried on with no other request in between:
\* while o waits in _urlExists, the GET of _urlExists is answered at once
\* and the handler resumes
RECURSIVE Settle(_, _)
Settle(o, rc) ==
  IF o.kind # "exists" THEN o
  ELSE Settle(UrlExistsCallback(o.urlData, o.registeredUrls, o.chunkData, o.frame,
                                GetResponse(o.urlData, o.registeredUrls, o.chunkData,
                                            rc,
                                            [ExistsOptions(o.frame.url)
                                               EXCEPT !.method = "GET"],
                                            Some(<<>>)).out),
              rc)

\* what the request r comes to when it runs alone on the store ud
Alone(ud, reg, cd, rc, r) ==
  Settle(GetResponse(ud, reg, cd, rc,
                     [r.options EXCEPT !.method = (IF r.options.method = "" THEN "GET"
                                                   ELSE r.options.method)],
                     r.requestBody).out,
         rc)

\* the log entry of the client request with the given id
Entry(id) == CHOOSE e \in {log[i] : i \in 1..Len(log)} : e.id = id

\* the log entry e ended as the outcome o does
EndedAs(e, o) == e.kind = o.kind /\ e.res = o.res

\* the two requests of the run were r1 and then r2, and both are over
Issued(r1, r2) ==
  /\ Idle
  /\ Len(log) = 2
  /\ Entry(1).submitted = r1.options
  /\ Entry(2).submitted = r2.options

\* first came to o1 when it ran alone; second ran alone after it
InIssueOrder(o1, r2) ==
  /\ EndedAs(Entry(1), o1)
  /\ EndedAs(Entry(2), Alone(o1.urlData, o1.registeredUrls, o1.chunkData,
                              requestCallback, r2))
  /\ urlData = Alone(o1.urlData, o1.registeredUrls, o1.chunkData,
                     requestCallback, r2).urlData

\* C17: when two requests on the same URL have been issued one after the
\* other, both answers and the final store are those of running the first
\* request to its end on the store it was issued on and then the second
C17_IssueOrder ==
  \A r1 \in RaceRequests, r2 \in RaceRequests :
    Issued(r1, r2) =>
      InIssueOrder(Alone(Entry(1).pre, Entry(1).preReg, <<>>, requestCallback, r1), r2)

-----------------------------------------------------------------------------
(* Properties of SpecChunk.                                                  *)

\* e is a built-in POST that carries a chunk
Chunked(e) ==
  /\ e.options.method = "POST"
  /\ NoHook(e)
  /\ IsSome(e.options.form)
  /\ Val(e.options.form).chunkLength # 0

\* the chunk of e was accepted
Accepted(e) == Chunked(e) /\ Answered(e, 200)

\* the assembly of the upload of e before e: offset and buffer
OffsetBefore(e) ==
  IF MapHas(e.preChunk, e.options.url)
  THEN MapGet(e.preChunk, e.options.url).currOffset ELSE 0

ContentBefore(e) ==
  IF MapHas(e.preChunk, e.options.url)
  THEN MapGet(e.preChunk, e.options.url).content
  ELSE BufferAlloc(Val(e.options.form).fileLength)

\* the cumulative offset of the upload of e once the chunk of e is counted
OffsetAfter(e) == OffsetBefore(e) + Val(e.options.form).chunkLength

\* the assembly buffer once the server has copied the chunk of e into it
Assembled(e) == BufferCopy(BodyBytes(e.requestBody), ContentBefore(e), OffsetBefore(e))

\* the chunk of e completes its upload
Completes(e) == OffsetAfter(e) >= Val(e.options.form).fileLength

\* C19: a chunked POST is never answered 201; after an accepted chunk that
\* leaves the cumulative offset below the declared file length the target
\* does not exist and the assembly state holds the buffer and the offset;
\* after the accepted chunk that reaches the file length the target exists,
\* its body is the assembled buffer, and the assembly state of the URL is gone
C19_ChunkedPost ==
  \A i \in 1..Len(log) :
    /\ Chunked(log[i]) => ~Answered(log[i], 201)
    /\ Accepted(log[i]) /\ ~Completes(log[i]) =>
         /\ ~UrlExists(log[i].post, log[i].options.url)
         /\ MapHas(log[i].postChunk, log[i].options.url)
         /\ MapGet(log[i].postChunk, log[i].options.url)
              = [content |-> Assembled(log[i]), currOffset |-> OffsetAfter(log[i])]
    /\ Accepted(log[i]) /\ Completes(log[i]) =>
         /\ UrlExists(log[i].post, log[i].options.url)
         /\ GetUrlResponseBody(log[i].post, log[i].options.url) = Assembled(log[i])
         /\ ~MapHas(log[i].postChunk, log[i].options.url)

\* the chunk of e is a text of one-byte characters
OneByteChunk(e) == Len(BodyBytes(e.requestBody)) = Len(BodyText(e.requestBody))

\* the accepted chunks of the upload that log[j] belongs to, up to log[j]
Upload(j) ==
  {i \in 1..j :
     /\ Accepted(log[i])
     /\ log[i].options.url = log[j].options.url
     /\ \A k \in i..(j - 1) :
          ~(Accepted(log[k]) /\ Completes(log[k])
            /\ log[k].options.url = log[j].options.url)}

\* the offset the chunk of log[i] declares, and the positions it covers there
Declared(i) == Val(log[i].options.form).fileOffset

Covers(i, p) ==
  p >= Declared(i) /\ p < Declared(i) + Len(BodyBytes(log[i].requestBody))

\* the declared offsets of the chunks of the upload tile the file: every
\* position of the file is covered by exactly one chunk and none reaches
\* beyond the file
Tiles(j) ==
  /\ \A i \in Upload(j) :
       Declared(i) + Len(BodyBytes(log[i].requestBody))
         <= Val(log[j].options.form).fileLength
  /\ \A p \in 0..(Val(log[j].options.form).fileLength - 1) :
       Cardinality({i \in Upload(j) : Covers(i, p)}) = 1

\* the bytes of the file the tiling chunks make up
FileBytes(j) ==
  [p \in 1..Val(log[j].options.form).fileLength |->
     BodyBytes(log[CHOOSE i \in Upload(j) : Covers(i, p - 1)].requestBody)
       [p - Declared(CHOOSE i \in Upload(j) : Covers(i, p - 1))]]

\* C20: when the chunks of an upload are texts of one-byte characters whose
\* declared offsets tile the file, the chunk that completes the upload
\* stores the bytes of the file, each chunk at its declared offset, in
\* whatever order the chunks arrived
C20_DeclaredOffsets ==
  \A j \in 1..Len(log) :
    /\ Accepted(log[j]) /\ Completes(log[j])
    /\ \A i \in Upload(j) : OneByteChunk(log[i])
    /\ Tiles(j)
    => /\ UrlExists(log[j].post, log[j].options.url)
       /\ GetUrlResponseBody(log[j].post, log[j].options.url) = FileBytes(j)

-----------------------------------------------------------------------------
(* Properties of SpecDefer.                                                  *)

\* C16: a step in which getResponse or a callback-form file-system operation
\* is called completes no call and touches neither the store, the request
\* record nor the file system; the step that completes a request consults
\* the global callback installed by then, and the step that completes a
\* file-system call runs it on the file system of that moment
C16_Deferred ==
  [][/\ nreq' # nreq =>
          /\ log' = log
          /\ urlData' = urlData
          /\ requestedUrls' = requestedUrls
     /\ Len(queue') > Len(queue) /\ queue'[Len(queue')].frame.stage = "fs" =>
          /\ fsLog' = fsLog
          /\ fs' = fs
     /\ log' # log /\ log'[Len(log')].checks = <<>> =>
          log'[Len(log')].hook
            = RequestCallback(requestCallback, Submitted(log'[Len(log')]))
     /\ fsLog' # fsLog =>
          /\ fs' = SyncForm(fs, fsLog'[Len(fsLog')].call).fs
          /\ fsLog'[Len(fsLog')].err = SyncForm(fs, fsLog'[Len(fsLog')].call).err
          /\ fsLog'[Len(fsLog')].value = SyncForm(fs, fsLog'[Len(fsLog')].call).value
    ]_vars

\* a request was answered by a global callback installed after the request
\* was issued, and exists() has found a file added after it was called
C16_Witness ==
  /\ \E i \in 1..Len(log) :
       /\ log[i].preCallback = "default"
       /\ log[i].ran = <<"global">>
       /\ Answered(log[i], 200)
  /\ \E i \in 1..Len(fsLog) :
       /\ fsLog[i].call.op = "exists"
       /\ ~ExistsSync(fsLog[i].call.pre, fsLog[i].call.path).value
       /\ ~fsLog[i].err /\ fsLog[i].value = TRUE

-----------------------------------------------------------------------------
(* Properties of SpecChunk on the chunk-assembly state.                      *)

\* C21: whenever chunkData holds an entry for a URL, the URL is not in the
\* store and the entry's current offset is above zero and below the declared
\* file length, the length of its buffer
C21_ChunkState ==
  \A i \in 1..Len(chunkData) :
    /\ ~MapHas(urlData, chunkData[i].key)
    /\ chunkData[i].val.currOffset > 0
    /\ chunkData[i].val.currOffset < Len(chunkData[i].val.content)

-----------------------------------------------------------------------------
(* Properties of SpecTree.  Vocabulary: e is the entry of fsLog, p and q are *)
(* normalized paths, f is a file system.                                     *)

\* p lies below the directory q
Under(p, q) ==
  IF q = <<"/">> THEN p # q /\ StartsWith(p, q) ELSE StartsWith(p, q \o <<"/">>)

AtOrUnder(p, q) == p = q \/ Under(p, q)

\* the documents of f
Docs(f) == {f.paths[k] : k \in 1..Len(f.paths)}

\* the documents of f at path p
DocsAt(f, p) == {doc \in Docs(f) : GetFullPath(doc) = p}

\* the test looked at a call of op that returned
Did(op) == fsLog # <<>> /\ fsLog[1].call.op = op /\ ~fsLog[1].err

\* the test looked at a call of op that threw
Failed(op) == fsLog # <<>> /\ fsLog[1].call.op = op /\ fsLog[1].err

\* the path p with its beginning q replaced by r
Relocated(p, q, r) == r \o SubstrFrom(p, Len(q))

\* C22: after renameSync(old, new) of a directory has returned, nothing is at
\* or under old, a directory is at new, every entity that was under old is
\* under new at the same relative path with its type and content, and the
\* entities outside the two subtrees are as they were
C22_RenameDirectory ==
  Did("rename") /\ (\E doc \in DocsAt(fsLog[1].pre, fsLog[1].call.path) : doc.isDir)
  => /\ \A doc \in Docs(fsLog[1].post) :
          ~AtOrUnder(GetFullPath(doc), fsLog[1].call.path)
     /\ \E moved \in DocsAt(fsLog[1].post, fsLog[1].call.dest) : moved.isDir
     /\ \A doc \in Docs(fsLog[1].pre) :
          Under(GetFullPath(doc), fsLog[1].call.path)
          => \E moved \in DocsAt(fsLog[1].post,
                                 Relocated(GetFullPath(doc), fsLog[1].call.path,
                                           fsLog[1].call.dest)) :
               moved.isDir = doc.isDir /\ moved.content = doc.content
     /\ \A doc \in Docs(fsLog[1].pre) \cup Docs(fsLog[1].post) :
          /\ ~AtOrUnder(GetFullPath(doc), fsLog[1].call.path)
          /\ ~AtOrUnder(GetFullPath(doc), fsLog[1].call.dest)
          => doc \in Docs(fsLog[1].pre) /\ doc \in Docs(fsLog[1].post)

\* f is a tree: the root is there, no two entities are at one path, and every
\* other entity lies in a directory that is there
Tree(f) ==
  /\ \E doc \in DocsAt(f, <<"/">>) : doc.isDir
  /\ \A doc, other \in Docs(f) :
       GetFullPath(doc) = GetFullPath(other) => doc = other
  /\ \A doc \in Docs(f) :
       GetFullPath(doc) # <<"/">> => \E dir \in DocsAt(f, doc.path) : dir.isDir

\* C23: after removePath(path) on a tree, existsSync is false for the path
\* and for every entity that was under it, the entities outside it are as
\* they were, and when nothing was at the path nothing has changed
C23_RemovePath ==
  Did("removePath") /\ Tree(fsLog[1].pre)
  => /\ ~ExistsSync(fsLog[1].post, fsLog[1].call.path).value
     /\ \A doc \in Docs(fsLog[1].pre) :
          IF AtOrUnder(GetFullPath(doc), fsLog[1].call.path)
          THEN ~ExistsSync(fsLog[1].post, GetFullPath(doc)).value
          ELSE doc \in Docs(fsLog[1].post)
     /\ Docs(fsLog[1].post) \subseteq Docs(fsLog[1].pre)
     /\ DocsAt(fsLog[1].pre, fsLog[1].call.path) = {}
        => fsLog[1].post = fsLog[1].pre

\* C37: when renameSync(old, new) returns, an entity is at new with the type
\* and the content that old had before the call, in the place of whatever
\* was at new; renaming a path to itself leaves the file system as it was
C37_Rename ==
  Did("rename") /\ Tree(fsLog[1].pre)
  => /\ \E old \in DocsAt(fsLog[1].pre, fsLog[1].call.path) :
          /\ DocsAt(fsLog[1].post, fsLog[1].call.dest) # {}
          /\ \A new \in DocsAt(fsLog[1].post, fsLog[1].call.dest) :
               new.isDir = old.isDir /\ new.content = old.content
     /\ fsLog[1].call.path = fsLog[1].call.dest => fsLog[1].post = fsLog[1].pre

-----------------------------------------------------------------------------
(* Properties of SpecFile.                                                   *)

\* the files of f with id fd
FilesOf(f, fd) == {doc \in Docs(f) : doc.id = fd /\ ~doc.isDir}

\* C24: openSync of a file that is open throws and changes nothing; openSync
\* of a file that is not open returns its descriptor and marks it open;
\* closeSync of an open descriptor returns, unmarks this descriptor only, and
\* the file can be opened again; closeSync of a descriptor that is not open
\* throws and changes nothing
C24_OpenOnce ==
  /\ fsLog # <<>> /\ fsLog[1].call.op = "open"
     /\ ~GetFile(fsLog[1].pre, fsLog[1].call.path).err
     => IF GetFile(fsLog[1].pre, fsLog[1].call.path).value.id \in fsLog[1].pre.openFds
        THEN fsLog[1].err /\ fsLog[1].post = fsLog[1].pre
        ELSE /\ ~fsLog[1].err
             /\ fsLog[1].value = GetFile(fsLog[1].pre, fsLog[1].call.path).value.id
             /\ fsLog[1].post.openFds
                  = fsLog[1].pre.openFds \cup {fsLog[1].value}
             /\ fsLog[1].post.paths = fsLog[1].pre.paths
  /\ fsLog # <<>> /\ fsLog[1].call.op = "close"
     => IF fsLog[1].call.fd \in fsLog[1].pre.openFds
        THEN /\ ~fsLog[1].err
             /\ fsLog[1].post.openFds = fsLog[1].pre.openFds \ {fsLog[1].call.fd}
             /\ fsLog[1].post.paths = fsLog[1].pre.paths
             /\ \A doc \in FilesOf(fsLog[1].post, fsLog[1].call.fd) :
                  /\ ~OpenSync(fsLog[1].post, GetFullPath(doc)).err
                  /\ OpenSync(fsLog[1].post, GetFullPath(doc)).value = doc.id
        ELSE fsLog[1].err /\ fsLog[1].post = fsLog[1].pre

\* an open file was opened again, in vain
C24_Witness ==
  /\ Failed("open")
  /\ ~GetFile(fsLog[1].pre, fsLog[1].call.path).err
  /\ GetFile(fsLog[1].pre, fsLog[1].call.path).value.id \in fsLog[1].pre.openFds


\* C25: readSync, writeSync, fstatSync and ftruncateSync on a descriptor that
\* is not open, never opened or closed since, throw and change nothing
C25_ClosedDescriptor ==
  /\ fsLog # <<>>
  /\ fsLog[1].call.op \in {"read", "write", "fstat", "ftruncate"}
  /\ fsLog[1].call.fd \notin fsLog[1].pre.openFds
  => fsLog[1].err /\ fsLog[1].post = fsLog[1].pre

\* the file the call of the entry e is about, in the file system before it:
\* the files at call.path for truncate, the files with id call.fd for
\* ftruncate
Target(e) ==
  IF e.call.op = "ftruncate" THEN FilesOf(e.pre, e.call.fd)
  ELSE {doc \in DocsAt(e.pre, e.call.path) : ~doc.isDir}

\* content is what old becomes at length n: the first bytes of old, then
\* zero bytes
Truncated(content, old, n) ==
  /\ Len(content) = n
  /\ \A i \in 1..n : content[i] = IF i <= Len(old) THEN old[i] ELSE 0

\* C26: truncateSync(path, len) and ftruncateSync(fd, len) of a file return
\* and leave the file with len bytes, none when len is left out: its first
\* bytes as they were, then zero bytes, and everything else as it was; on a
\* directory or on a path or descriptor with nothing behind it they throw
\* and change nothing
C26_Truncate ==
  fsLog # <<>> /\ fsLog[1].call.op \in {"truncate", "ftruncate"}
  => IF Target(fsLog[1]) = {}
     THEN fsLog[1].err /\ fsLog[1].post = fsLog[1].pre
     ELSE /\ ~fsLog[1].err
          /\ fsLog[1].post.openFds = fsLog[1].pre.openFds
          /\ Len(fsLog[1].post.paths) = Len(fsLog[1].pre.paths)
          /\ \A k \in 1..Len(fsLog[1].pre.paths) :
               IF fsLog[1].pre.paths[k] \in Target(fsLog[1])
               THEN /\ Truncated(fsLog[1].post.paths[k].content,
                                 fsLog[1].pre.paths[k].content,
                                 LenArg(fsLog[1].call.len))
                    /\ fsLog[1].post.paths[k].size = LenArg(fsLog[1].call.len)
                    /\ [fsLog[1].post.paths[k] EXCEPT !.content = <<>>, !.size = 0]
                         = [fsLog[1].pre.paths[k] EXCEPT !.content = <<>>, !.size = 0]
               ELSE fsLog[1].post.paths[k] = fsLog[1].pre.paths[k]

\* a file of two bytes was truncated to three
C26_Witness ==
  /\ Did("truncate")
  /\ fsLog[1].call.len = Some(3)
  /\ \E doc \in Target(fsLog[1]) : Len(doc.content) = 2 /\ doc.content[1] # 0

C28_Root ==
  \E doc \in DocsAt(fs, <<"/">>) : doc.isDir /\ doc.path = <<>>


\* C29: in every state no two entities have the same parent path and name
C29_UniquePath ==
  \A j, k \in 1..Len(fs.paths) :
    fs.paths[j].path = fs.paths[k].path /\ fs.paths[j].name = fs.paths[k].name
    => j = k


\* the operations that take a path and are said to report a path that is not
\* there
PathOps == {"stat", "open", "readdir", "readFile", "unlink", "rmdir", "truncate", "rename"}

\* C30: stat, open, readdir, readFile, unlink, rmdir, truncate and rename of
\* a path where nothing is fail with an error whose code is ENOENT
C30_NotFound ==
  fsLog # <<>> /\ fsLog[1].call.op \in PathOps
               /\ DocsAt(fsLog[1].pre, fsLog[1].call.path) = {}
  => fsLog[1].err /\ fsLog[1].value = Some("ENOENT")

\* C38: every descriptor that is marked open is the descriptor of a file
\* that exists: a file that is unlinked, removed or replaced by a rename
\* does not stay marked open
C38_OpenExists == \A fd \in fs.openFds : FilesOf(fs, fd) # {}

-----------------------------------------------------------------------------
(* Properties of SpecWrite.                                                  *)

\* the content of the file of SpecWrite in f, which must be there
Written(f) == (CHOOSE doc \in DocsAt(f, WritePath) : TRUE).content

\* the bytes of the slice a write reported, which is a string for a write
\* of a string
SliceBytes(e) ==
  IF e.call.op = "writeText" THEN BufferFrom(e.value.writtenData)
  ELSE e.value.writtenData

\* a write at a position has stored what it reported: the file reaches to the
\* end of the written bytes, and they are read back from the position
WroteAsReported(e) ==
  /\ Len(Written(e.post)) >= e.call.position + e.value.written
  /\ e.value.written = Len(SliceBytes(e))
  /\ Slice(Written(e.post), e.call.position, e.value.written) = SliceBytes(e)
  /\ e.call.op = "writeText" => e.value.writtenData = e.call.data

\* C31: a write that returned has stored the bytes it reports as written at
\* its position, where they are read back, and the file is at least as long
\* as the position and the bytes written; after writeFile the content is the
\* data and the size its length
C31_Write ==
  fsLog # <<>> /\ ~fsLog[1].err
  => /\ fsLog[1].call.op \in {"writeText", "writeBuffer"} => WroteAsReported(fsLog[1])
     /\ fsLog[1].call.op = "writeFile"
        => /\ Written(fsLog[1].post) = BufferFrom(fsLog[1].call.data)
           /\ StatSync(fsLog[1].post, WritePath).value.size
                = Len(BufferFrom(fsLog[1].call.data))

-----------------------------------------------------------------------------
(* Properties of SpecLive.                                                   *)

\* the caller of request n has been handed a response or an error
Completed(n) ==
  \E i \in 1..Len(log) : log[i].id = n /\ log[i].kind \in {"respond", "error"}

\* C32: every request that was submitted is eventually completed with a
\* response or an error, and no request is completed twice
C32_Completes ==
  /\ \A n \in 1..MaxLiveReq : (nreq >= n) ~> Completed(n)
  /\ [](\A i, j \in 1..Len(log) : log[i].id = log[j].id => i = j)

-----------------------------------------------------------------------------
(* Properties of SpecStore.                                                  *)

\* C33: the parent of every stored resource is the root or is stored
C33_Hierarchy ==
  \A i \in 1..Len(urlData) : HasParent(urlData, urlData[i].key)

-----------------------------------------------------------------------------
(* Properties of SpecPost.                                                   *)

\* e is a POST that was submitted when its URL was not stored and its parent
\* was the root or stored
Creating(e) ==
  /\ Is(e, "POST")
  /\ ~UrlExists(e.pre, e.options.url)
  /\ HasParent(e.pre, e.options.url)

\* the request e won against f: e created the resource with its body and f
\* was refused
Won(e, f) ==
  /\ Answered(e, 201)
  /\ Answered(f, 409)
  /\ GetUrlResponseBody(urlData, e.options.url) = BodyBytes(e.requestBody)

-----------------------------------------------------------------------------
(* Properties of SpecParents.                                                *)

\* every entity of f but the root has a directory at its parent path
Parented(f) ==
  \A doc \in Docs(f) :
    GetFullPath(doc) # <<"/">> => \E dir \in DocsAt(f, doc.path) : dir.isDir

\* nothing is at the parent path of p in f
ParentMissing(f, p) == p # <<"/">> /\ DocsAt(f, SplitPath(p).dir) = {}

\* the call the test looked at, when it made something without making its
\* parents, threw if the parent was missing
NeedsParent(e) ==
  e.call.op \in {"mkdir", "openCreate", "createWriteStream"}
    /\ ParentMissing(e.pre, e.call.path) => e.err

\* the call the test looked at, when it made something with its parents and
\* returned, left something at every path above its own
MakesParents(e) ==
  e.call.op \in {"addFile", "addDirectory", "mkdirp"} /\ ~e.err
    => \A q \in TreePaths : Under(e.call.path, q) => DocsAt(e.post, q) # {}

\* C35: every entity but the root has a parent that exists and is a
\* directory, whatever addFile, addDirectory, mkdir, mkdirp, open with
\* create, createWriteStream, removePath, unlink, rmdir and rename calls were
\* made; mkdir, open with create and createWriteStream throw when the parent
\* is missing, and addFile, addDirectory and mkdirp make every missing
\* ancestor
C35_Parents ==
  /\ Parented(fs)
  /\ \A i \in 1..Len(fsLog) : NeedsParent(fsLog[i]) /\ MakesParents(fsLog[i])


\* C36: a file-system call that throws leaves the entity table and the set of
\* open descriptors as they were before the call
C36_FailedUnchanged ==
  \A i \in 1..Len(fsLog) : fsLog[i].err => fsLog[i].post = fsLog[i].pre

-----------------------------------------------------------------------------
(* Properties of SpecAem.                                                    *)

\* the request of the log entry e asked for the info URL of u
AskedInfo(e, u) ==
  e.submitted.url = u \o JsonSuffix /\ e.submitted.method \in {"GET", "HEAD"}

\* C39: whatever POST, PUT, DELETE and MOVE requests went before, the info
\* URL u.json of a URL u is answered with 200 when u is in the Resource
\* Store and with 404 when it is not
C39_Info ==
  \A i \in 1..Len(log) : \A u \in InfoUrls :
    AskedInfo(log[i], u)
    => /\ log[i].kind = "respond"
       /\ log[i].res.statusCode = IF UrlExists(log[i].pre, u) THEN 200 ELSE 404

-----------------------------------------------------------------------------
(* Properties of SpecAemRace.                                                *)

\* the status that answers the request of the log entry e when it is sent to
\* a server that has /content and /content/dam and nothing else
SetUpStatus(e) == IF e.submitted.method = "POST" THEN 201 ELSE 200

\* C40: first-time setup has made /content and /content/dam before
\* processRequest works on a request of the test, so the first two requests
\* to a fresh server are answered alike whether they are sent at once or one
\* after the other
C40_SetupFirst ==
  \A i \in 1..Len(log) :
    /\ log[i].ready
    /\ log[i].kind = "respond"
    /\ log[i].res.statusCode = SetUpStatus(log[i])

====
